---- MODULE Spec2Model ----
(***************************************************************************)
(* State-machine model of list_ui_server.py: the job orchestrator (single  *)
(* worker thread fed by a FIFO queue), the notification mailbox            *)
(* (_async_messages under _async_lock), the SQLite-backed entry store      *)
(* (add_entry / remove_entry / read_entries under _lock), the media        *)
(* cleanup under MUSIC_DIR that remove_entry runs, and the photo cache in  *)
(* PHOTOS_DIR (under _photo_lock).                                         *)
(*                                                                         *)
(* Strings that the code trims or inspects are sequences of one-character  *)
(* strings, so that str.strip() and str.startswith() are computed.         *)
(***************************************************************************)
EXTENDS Integers, Sequences, FiniteSets, TLC

\* ------------------------------------------------------------------ bounds
NThreads == 2        \* request-handling threads
MaxWorkers == 2      \* thread objects _ensure_orpheus_worker may create
MaxJobs == 3         \* calls of _trigger_download / _trigger_artist_download
MaxPublish == 3      \* request-thread calls of _enqueue_async_message
MaxDrains == 3       \* calls of _consume_async_messages
MaxAdds == 2         \* rows add_entry may insert, in all
MaxRemoves == 2      \* remove_entry calls that select a row
MaxIdLen == 3        \* characters of a photo identifier in a request

Threads == 1..NThreads
Workers == 1..MaxWorkers
NoThread == 0
None == <<"None">>

Kinds == {"artist", "album", "track"}

VARIABLES
    pc,              \* request thread -> position in the handler it runs
    frame,           \* request thread -> its local variables
    orpheus_queue,   \* _orpheus_queue: FIFO of (label, task)
    orpheus_worker,  \* _orpheus_worker: the last Thread object created, 0 = None
    wstate,          \* thread object -> "unstarted" | "idle" | "running" | "dead"
    wjob,            \* thread object -> the (label, task) it is executing
    async_messages,  \* _async_messages
    async_lock,      \* _async_lock: the request thread holding it, 0 = free
    jobLog,          \* history: job number (order of put) -> what happened to it
    started,         \* history: job numbers in the order their thunks started
    nTrigger,        \* history: calls of the trigger functions so far
    pubLog,          \* history: every (message, is_error) appended, in order
    drains,          \* history: what each _consume_async_messages call returned
    nPublish,        \* history: request-thread publishes so far
    tables,          \* kind -> the rows of its SQLite table (artists, albums, tracks)
    lock,            \* _lock: the request thread holding it, 0 = free
    clock,           \* CURRENT_TIMESTAMP
    returned,        \* history: the store call or handler that returned in the last step,
                     \* if any
    storeLog,        \* history: rows inserted so far, remove_entry calls that found a row
    disk,            \* the filesystem around MUSIC_DIR: the directories and files there
    photo_files,     \* the files in PHOTOS_DIR: name and bytes of each
    photo_lock,      \* _photo_lock: the request thread holding it, 0 = free
    photo_seen       \* history: the photo call that read or returned in the last step,
                     \* if any, with the bytes behind what it saw or returned

jobVars == <<orpheus_queue, orpheus_worker, wstate, wjob, jobLog, started, nTrigger>>
mboxVars == <<async_messages, async_lock, pubLog, drains, nPublish>>
storeVars == <<tables, lock, clock, returned, storeLog>>
photoVars == <<photo_files, photo_lock, photo_seen>>
vars == <<pc, frame, jobVars, mboxVars, storeVars, disk, photoVars>>

\* ------------------------------------------------------------ text helpers
Whitespace == {" "}

RECURSIVE LStrip(_)
LStrip(s) == IF s # <<>> /\ Head(s) \in Whitespace THEN LStrip(Tail(s)) ELSE s

RECURSIVE RStrip(_)
RStrip(s) ==
    IF s # <<>> /\ s[Len(s)] \in Whitespace THEN RStrip(SubSeq(s, 1, Len(s) - 1)) ELSE s

\* str.strip()
Strip(s) == RStrip(LStrip(s))

\* str.startswith(c) for a one-character prefix
StartsWith(s, c) == s # <<>> /\ Head(s) = c

\* sanitize_entry_value
sanitize_entry_value(value) ==
    LET sanitized == Strip(value)
    IN IF sanitized = <<>> \/ StartsWith(sanitized, "#") THEN None ELSE sanitized

\* ----------------------------------------------------------------- mailbox
\* `with _async_lock:` can be entered only while no other thread holds it.
AsyncLockBroken == TRUE
AsyncLockFree == async_lock = NoThread

\* _enqueue_async_message: the append under _async_lock (the webhook
\* notification that follows touches no state of this process).
AppendMessage(buffer, message, is_error) == Append(buffer, <<message, is_error>>)

RECURSIVE AppendAll(_, _)
AppendAll(buffer, msgs) ==
    IF msgs = <<>> THEN buffer
    ELSE AppendAll(AppendMessage(buffer, msgs[1][1], msgs[1][2]), Tail(msgs))

\* _consume_async_messages, `messages = list(_async_messages)`
ConsumeCopy(buffer) == buffer

\* _consume_async_messages, `_async_messages.clear()`
ConsumeKeep(buffer) == buffer
ConsumeClear(buffer) == <<>>

\* send_discord_notification as the webhook makes it behave: it delivers
\* (True), it fails (False: no webhook configured, or a request error it
\* catches), or it raises.
SinkBehaviours == {"delivers", "fails", "raises"}

\* _publish_discord_event: `except Exception` around the sink, so nothing the
\* sink raises leaves it.
SinkFailureEscapes(sink) == sink = "raises"
PublishRaises(sink) == FALSE

\* _enqueue_async_message: `notify`, true for errors and for "download
\* completed" texts
Notifies(message) == message[2] \/ message[1].what = "Download completed for"

\* Messages passed one by one to _enqueue_async_message: the ones that get
\* appended (all of them unless a publish raises), and whether one raises.
RECURSIVE Enqueued(_, _)
Enqueued(msgs, sink) ==
    IF msgs = <<>> THEN <<>>
    ELSE IF Notifies(Head(msgs)) /\ PublishRaises(sink) THEN <<Head(msgs)>>
    ELSE <<Head(msgs)>> \o Enqueued(Tail(msgs), sink)

EnqueueRaises(msgs, sink) ==
    PublishRaises(sink) /\ \E i \in 1..Len(msgs) : Notifies(msgs[i])

\* A request thread publishes (remove_entry's media warnings, the photo
\* download report, _trigger_download's "ignored" note).
EnqueueAsyncMessage(t, is_error) ==
    /\ pc[t] = "idle"
    /\ nPublish < MaxPublish
    /\ AsyncLockFree
    /\ LET message == [what |-> "m", n |-> Len(pubLog) + 1]
       IN /\ async_messages' = AppendMessage(async_messages, message, is_error)
          /\ pubLog' = Append(pubLog, <<message, is_error>>)
    /\ nPublish' = nPublish + 1
    /\ UNCHANGED <<pc, frame, jobVars, async_lock, drains, storeVars>>
    /\ UNCHANGED <<disk, photoVars>>

\* _consume_async_messages: acquire _async_lock; an empty buffer returns [].
ConsumeBegin(t) ==
    /\ pc[t] = "idle"
    /\ Len(drains) < MaxDrains
    /\ AsyncLockFree
    /\ IF async_messages = <<>>
       THEN /\ drains' = Append(drains, <<>>)
            /\ UNCHANGED <<pc, frame, async_lock>>
       ELSE /\ pc' = [pc EXCEPT ![t] = "consume_copy"]
            /\ async_lock' = t
            /\ UNCHANGED <<frame, drains>>
    /\ UNCHANGED <<jobVars, async_messages, pubLog, nPublish, storeVars>>
    /\ UNCHANGED <<disk, photoVars>>

\* messages = list(_async_messages)
ConsumeCopyStep(t) ==
    /\ pc[t] = "consume_copy"
    /\ frame' = [frame EXCEPT ![t] = [messages |-> ConsumeCopy(async_messages)]]
    /\ pc' = [pc EXCEPT ![t] = "consume_clear"]
    /\ UNCHANGED <<jobVars, mboxVars, storeVars>>
    /\ UNCHANGED <<disk, photoVars>>

\* _async_messages.clear(); return messages (leaving the with block)
ConsumeClearStep(t) ==
    /\ pc[t] = "consume_clear"
    /\ async_messages' = ConsumeClear(async_messages)
    /\ drains' = Append(drains, frame[t].messages)
    /\ async_lock' = NoThread
    /\ pc' = [pc EXCEPT ![t] = "idle"]
    /\ frame' = [frame EXCEPT ![t] = [messages |-> <<>>]]
    /\ UNCHANGED <<jobVars, pubLog, nPublish, storeVars>>
    /\ UNCHANGED <<disk, photoVars>>

\* --------------------------------------------------- publish and the sink
\* _enqueue_async_message step by step: the append under _async_lock, then,
\* for a message that notifies while a webhook URL is configured, the call of
\* requests.post(webhook_url, json=payload, timeout=10.0) inside
\* send_discord_notification, which the publisher waits for.
PublishTexts == {"Download completed for", "Download failed for", "m"}

EnqueueAppend(t, what, is_error, webhook) ==
    /\ pc[t] = "idle"
    /\ nPublish < MaxPublish
    /\ AsyncLockFree
    /\ LET message == [what |-> what, n |-> Len(pubLog) + 1]
       IN /\ async_messages' = AppendMessage(async_messages, message, is_error)
          /\ pubLog' = Append(pubLog, <<message, is_error>>)
          /\ IF Notifies(<<message, is_error>>) /\ webhook
             THEN /\ pc' = [pc EXCEPT ![t] = "sink_post"]
                  /\ frame' = [frame EXCEPT ![t] = [messages |-> <<message>>]]
             ELSE UNCHANGED <<pc, frame>>
    /\ nPublish' = nPublish + 1
    /\ UNCHANGED <<jobVars, async_lock, drains, storeVars>>
    /\ UNCHANGED <<disk, photoVars>>

\* requests.post returns, fails or times out; _publish_discord_event and
\* _enqueue_async_message return.
SinkPostEnds(t, sink) ==
    /\ pc[t] = "sink_post"
    /\ pc' = [pc EXCEPT ![t] = "idle"]
    /\ frame' = [frame EXCEPT ![t] = [messages |-> <<>>]]
    /\ UNCHANGED <<jobVars, mboxVars, storeVars>>
    /\ UNCHANGED <<disk, photoVars>>

\* ------------------------------------------------------------ orchestrator
JobRawValues == {<<"a">>, <<" ", "a">>, <<"#", "a">>, <<" ">>}
Outcomes == {"exit0", "exit1", "launch_exc", "raise"}

\* Thread.is_alive()
IsAlive(w) == w # 0 /\ wstate[w] \in {"idle", "running"}

\* _ensure_orpheus_worker: `if _orpheus_worker and _orpheus_worker.is_alive()`
WorkerCheckSkipped == FALSE
WorkerCheckedIdleOnly == orpheus_worker # 0 /\ wstate[orpheus_worker] = "idle"
WorkerIsRunning == IsAlive(orpheus_worker)

\* _orpheus_queue = queue.Queue(): no maxsize, so put never waits for room
QueueHoldsOne(q) == Len(q) < 1
QueueHasRoom(q) == TRUE

\* queue.Queue.put / get: FIFO
QueuePutFront(q, item) == <<item>> \o q
QueuePut(q, item) == Append(q, item)

\* The f-string of a message about one entry: what happened, to which entry,
\* and the exit code or exception text.
FetchText(what, kind, value, detail) ==
    [what |-> what, kind |-> kind, value |-> value, detail |-> detail]

\* What _run_artist_download publishes for each way the command can end.
RunArtistDownloadMessages(artist_id, outcome) ==
    CASE outcome = "launch_exc" ->
            << <<FetchText("Download failed for", "artist", artist_id, "exc"), TRUE>> >>
      [] outcome = "exit1" ->
            << <<FetchText("Download failed for", "artist", artist_id, "exit code 1"), TRUE>> >>
      [] outcome = "exit0" ->
            << <<FetchText("Download completed for", "artist", artist_id, ""), FALSE>> >>
      [] OTHER -> <<>>

\* What _run_download publishes for each way the command can end.
RunDownloadMessages(kind, value, outcome) ==
    CASE outcome = "launch_exc" ->
            << <<FetchText("Download failed for", kind, value, "exc"), TRUE>> >>
      [] outcome = "exit1" ->
            << <<FetchText("Download failed for", kind, value, "exit code 1"), TRUE>> >>
      [] OTHER -> <<>>

TaskMessages(task, outcome) ==
    IF task.fn = "_run_artist_download"
    THEN RunArtistDownloadMessages(task.value, outcome)
    ELSE RunDownloadMessages(task.kind, task.value, outcome)

\* _orpheus_worker_main: `except Exception` logs and the while loop goes on.
WorkerDiesOnException(outcome) == IF outcome = "raise" THEN "dead" ELSE "idle"
WorkerAfterTask(outcome) == "idle"

\* _trigger_artist_download / _trigger_download up to the call of
\* _queue_orpheus_task; an unfetchable value returns here.
TriggerFrom(t, at, kind, value) ==
    /\ pc[t] = at
    /\ nTrigger < MaxJobs
    /\ nTrigger' = nTrigger + 1
    /\ LET sanitized == sanitize_entry_value(value)
       IN IF sanitized = None
          THEN IF kind # "artist" /\ StartsWith(value, "#")
               THEN /\ AsyncLockFree
                    /\ async_messages' =
                          AppendMessage(async_messages,
                                        FetchText("ignored", kind, value, "#"), FALSE)
                    /\ pubLog' =
                          Append(pubLog, <<FetchText("ignored", kind, value, "#"), FALSE>>)
                    /\ pc' = [pc EXCEPT ![t] = "idle"]
                    /\ frame' = [frame EXCEPT ![t] = [messages |-> <<>>]]
               ELSE /\ pc' = [pc EXCEPT ![t] = "idle"]
                    /\ frame' = [frame EXCEPT ![t] = [messages |-> <<>>]]
                    /\ UNCHANGED <<async_messages, pubLog>>
          ELSE /\ pc' = [pc EXCEPT ![t] = "ensure_worker"]
               /\ frame' = [frame EXCEPT ![t] =
                     [label |-> <<"download", kind, sanitized>>,
                      task |-> [fn |-> IF kind = "artist" THEN "_run_artist_download"
                                       ELSE "_run_download",
                                kind |-> kind, value |-> sanitized]]]
               /\ UNCHANGED <<async_messages, pubLog>>
    /\ UNCHANGED <<orpheus_queue, orpheus_worker, wstate, wjob, jobLog, started,
                   async_lock, drains, nPublish, storeVars>>
    /\ UNCHANGED <<disk, photoVars>>

\* A trigger called on its own
Trigger(t, kind, value) == TriggerFrom(t, "idle", kind, value)

\* The select handlers after a successful add_entry:
\* _trigger_artist_download(artist_id) / _trigger_download(kind, id)
SelectTrigger(t) == TriggerFrom(t, "select_trigger", frame[t].kind, frame[t].value)

\* _ensure_orpheus_worker, atomic under _orpheus_worker_lock
EnsureOrpheusWorker(t) ==
    /\ pc[t] = "ensure_worker"
    /\ IF WorkerIsRunning
       THEN UNCHANGED <<orpheus_worker, wstate>>
       ELSE \E w \in Workers :
               /\ wstate[w] = "unstarted"
               /\ \A v \in Workers : v < w => wstate[v] # "unstarted"
               /\ orpheus_worker' = w
               /\ wstate' = [wstate EXCEPT ![w] = "idle"]
    /\ pc' = [pc EXCEPT ![t] = "queue_put"]
    /\ UNCHANGED <<frame, orpheus_queue, wjob, jobLog, started, nTrigger, mboxVars,
                   storeVars>>
    /\ UNCHANGED <<disk, photoVars>>

\* _queue_orpheus_task: _orpheus_queue.put((label, task))
QueueOrpheusTask(t) ==
    /\ pc[t] = "queue_put"
    /\ QueueHasRoom(orpheus_queue)
    /\ LET job == Len(jobLog) + 1
       IN /\ orpheus_queue' =
                QueuePut(orpheus_queue,
                         [job |-> job, label |-> frame[t].label, task |-> frame[t].task])
          /\ jobLog' = Append(jobLog, [task |-> frame[t].task, state |-> "queued",
                                       outcome |-> "none", published |-> <<>>])
    /\ pc' = [pc EXCEPT ![t] = "idle"]
    /\ frame' = [frame EXCEPT ![t] = [messages |-> <<>>]]
    /\ UNCHANGED <<orpheus_worker, wstate, wjob, started, nTrigger, mboxVars, storeVars>>
    /\ UNCHANGED <<disk, photoVars>>

\* _orpheus_worker_main: label, task = _orpheus_queue.get(); task() begins
WorkerGet(w) ==
    /\ wstate[w] = "idle"
    /\ orpheus_queue # <<>>
    /\ LET item == Head(orpheus_queue)
       IN /\ wjob' = [wjob EXCEPT ![w] = item]
          /\ started' = Append(started, item.job)
          /\ jobLog' = [jobLog EXCEPT ![item.job].state = "running"]
    /\ orpheus_queue' = Tail(orpheus_queue)
    /\ wstate' = [wstate EXCEPT ![w] = "running"]
    /\ UNCHANGED <<pc, frame, orpheus_worker, nTrigger, mboxVars, storeVars>>
    /\ UNCHANGED <<disk, photoVars>>

\* task() ends (the fetch command exits, cannot be launched, or an exception
\* escapes the thunk), its messages are published, task_done() is called.
\* An exception leaving a publish would be one that escapes the thunk.
WorkerFinish(w, outcome, sink) ==
    /\ wstate[w] = "running"
    /\ LET item == wjob[w]
           msgs == Enqueued(TaskMessages(item.task, outcome), sink)
           ended == IF EnqueueRaises(TaskMessages(item.task, outcome), sink)
                    THEN "raise" ELSE outcome
       IN /\ msgs # <<>> => AsyncLockFree
          /\ async_messages' = AppendAll(async_messages, msgs)
          /\ pubLog' = pubLog \o msgs
          /\ jobLog' = [jobLog EXCEPT ![item.job].state = "done",
                                      ![item.job].outcome = ended,
                                      ![item.job].published = msgs]
          /\ wstate' = [wstate EXCEPT ![w] = WorkerAfterTask(ended)]
    /\ wjob' = [wjob EXCEPT ![w] = None]
    /\ UNCHANGED <<pc, frame, orpheus_queue, orpheus_worker, started, nTrigger,
                   async_lock, drains, nPublish, storeVars>>
    /\ UNCHANGED <<disk, photoVars>>

\* -------------------------------------------------------------- filesystem
\* A name is a sequence of characters, a path a sequence of names (the parts
\* of a pathlib.Path, "/" being <<>>); a node of the disk is a path with its
\* type.  There are no symbolic links.
MUSIC_DIR == << <<"d">>, <<"m">> >>
DotDot == <<".", ".">>
Missing == << <<"?">> >>
AUDIO_FILE_EXTENSIONS == { <<".", "w", "v">> }

Dir(path) == [path |-> path, is_dir |-> TRUE]
File(path) == [path |-> path, is_dir |-> FALSE]
Last(path) == path[Len(path)]
Parent(path) == IF path = <<>> THEN <<>> ELSE SubSeq(path, 1, Len(path) - 1)
IsPrefix(p, q) == Len(p) <= Len(q) /\ SubSeq(q, 1, Len(p)) = p

\* The parts pathlib makes of a string: split at "/", "" and "." dropped.
RECURSIVE SplitParts(_, _)
SplitParts(s, cur) ==
    LET done == IF cur \in {<<>>, <<".">>} THEN <<>> ELSE <<cur>>
    IN IF s = <<>> THEN done
       ELSE IF Head(s) = "/" THEN done \o SplitParts(Tail(s), <<>>)
       ELSE SplitParts(Tail(s), Append(cur, Head(s)))

\* base / name: an absolute name replaces the base
Join(base, name) ==
    IF StartsWith(name, "/") THEN SplitParts(name, <<>>) ELSE base \o SplitParts(name, <<>>)

\* Path.resolve(strict=False): ".." steps are taken, nothing has to exist
RECURSIVE ResolveFrom(_, _)
ResolveFrom(done, rest) ==
    IF rest = <<>> THEN done
    ELSE IF Head(rest) = DotDot THEN ResolveFrom(Parent(done), Tail(rest))
    ELSE ResolveFrom(Append(done, Head(rest)), Tail(rest))

Resolve(path) == ResolveFrom(<<>>, path)

\* Path.relative_to(base) does not raise: base is the path or an ancestor
RelativeTo(path, base) == IsPrefix(base, path)

\* What the operating system finds walking a path: every step must exist, and
\* every step but the last must be a directory.
RECURSIVE Walk(_, _, _)
Walk(d, at, rest) ==
    IF at \notin {n.path : n \in d} THEN Missing
    ELSE IF rest = <<>> THEN at
    ELSE IF Dir(at) \notin d THEN Missing
    ELSE IF Head(rest) = DotDot THEN Walk(d, Parent(at), Tail(rest))
    ELSE Walk(d, Append(at, Head(rest)), Tail(rest))

Lookup(d, path) == Walk(d, <<>>, path)
PathExists(d, path) == Lookup(d, path) # Missing
IsDir(d, path) == Dir(Lookup(d, path)) \in d
IsFile(d, path) == File(Lookup(d, path)) \in d

\* Path.iterdir(): the children, each as directory / name
IterDir(d, path) ==
    LET at == Lookup(d, path)
    IN {Append(path, Last(n.path)) : n \in {c \in d : c.path # <<>> /\ Parent(c.path) = at}}

\* Path.rglob("*"): everything below the directory
RGlob(d, path) ==
    LET at == Lookup(d, path)
    IN {n.path : n \in {c \in d : IsPrefix(at, c.path) /\ c.path # at}}

\* shutil.rmtree(path) / Path.unlink(): a missing path raises FileNotFoundError,
\* which every caller catches and ignores.
RmTreeOfParent(d, path) ==
    LET at == Lookup(d, path)
    IN IF at = Missing THEN d ELSE {n \in d : ~IsPrefix(Parent(at), n.path)}

RmTree(d, path) ==
    LET at == Lookup(d, path)
    IN IF at = Missing THEN d ELSE {n \in d : ~IsPrefix(at, n.path)}

Unlink(d, path) == {n \in d : n.path # Lookup(d, path)}

\* Path.suffix and Path.stem
LastDot(name) ==
    LET dots == {i \in 1..Len(name) : name[i] = "."}
    IN IF dots = {} THEN 0 ELSE CHOOSE i \in dots : \A j \in dots : j <= i

PathSuffix(name) ==
    LET i == LastDot(name)
    IN IF i > 1 /\ i < Len(name) THEN SubSeq(name, i, Len(name)) ELSE <<>>

PathStem(name) ==
    IF PathSuffix(name) = <<>> THEN name ELSE SubSeq(name, 1, LastDot(name) - 1)

\* The characters in use.  "e'" and "E'" stand for the letters e and E with
\* an acute accent (one character each), "'" for the combining acute accent.
\* unicodedata.normalize("NFKD", ...) splits an accented letter into the
\* letter and the combining accent; unicodedata.combining(ch) is non-zero for
\* the accent only.
NFKD(c) == CASE c = "e'" -> <<"e", "'">> [] c = "E'" -> <<"E", "'">> [] OTHER -> <<c>>
Combining(c) == c = "'"

\* str.casefold() and str.isalnum() on the characters in use
Casefold(c) ==
    CASE c = "O" -> "o" [] c = "T" -> "t" [] c = "E" -> "e" [] c = "W" -> "w" [] OTHER -> c
IsAlnum(c) == c \notin {" ", ".", "/", "_", "#", "-", "'"}

RECURSIVE Decompose(_)
Decompose(value) ==
    IF value = <<>> THEN <<>> ELSE NFKD(Head(value)) \o Decompose(Tail(value))

\* _normalize_name_for_match
NormalizeKeepCase(value) ==
    LET normalized == SelectSeq(Decompose(value), LAMBDA ch : ~Combining(ch))
    IN SelectSeq(normalized, IsAlnum)

NormalizeNameForMatch(value) ==
    LET normalized == SelectSeq(Decompose(value), LAMBDA ch : ~Combining(ch))
        lowered == [i \in 1..Len(normalized) |-> Casefold(normalized[i])]
    IN SelectSeq(lowered, IsAlnum)

\* `pattern in candidate` for strings
Contains(candidate, pattern) ==
    \E i \in 0..(Len(candidate) - Len(pattern)) :
        SubSeq(candidate, i + 1, i + Len(pattern)) = pattern

\* _name_matches
NameMatchesEmptyForms(candidate, pattern) ==
    Contains(NormalizeNameForMatch(candidate), NormalizeNameForMatch(pattern))

NameMatches(candidate, pattern) ==
    LET candidate_norm == NormalizeNameForMatch(candidate)
        pattern_norm == NormalizeNameForMatch(pattern)
    IN IF candidate_norm = <<>> \/ pattern_norm = <<>> THEN FALSE
       ELSE Contains(candidate_norm, pattern_norm)

\* _is_within_music_dir
IsWithinMusicDir(path) == RelativeTo(Resolve(path), Resolve(MUSIC_DIR))

\* _candidate_artist_directories
CandidateArtistDirectories(d, artist_name) ==
    IF ~PathExists(d, MUSIC_DIR) THEN {}
    ELSE LET children ==
                 {child \in IterDir(d, MUSIC_DIR) :
                     /\ IsDir(d, child)
                     /\ artist_name = <<>> \/ NameMatches(Last(child), artist_name)}
             direct == Join(MUSIC_DIR, artist_name)
         IN children \cup (IF IsDir(d, direct) THEN {direct} ELSE {})

\* _find_album_directories: the matches, one per resolved path
FindAlbumDirectories(d, artist_name, album_title) ==
    IF album_title = <<>> THEN {}
    ELSE LET found == CandidateArtistDirectories(d, artist_name)
             candidates == IF found = {} THEN {MUSIC_DIR} ELSE found
             matches ==
                 UNION {{child \in IterDir(d, directory) :
                            IsDir(d, child) /\ NameMatches(Last(child), album_title)} :
                        directory \in {c \in candidates : IsDir(d, c)}}
         IN {Resolve(path) : path \in matches}

\* _find_track_files
FindTrackFiles(d, album_directory, track_title) ==
    LET normalized_track == NormalizeNameForMatch(track_title)
    IN IF track_title = <<>> \/ ~PathExists(d, album_directory) \/ normalized_track = <<>>
       THEN {}
       ELSE {path \in RGlob(d, album_directory) :
                /\ IsFile(d, path)
                /\ PathSuffix(Last(path)) \in AUDIO_FILE_EXTENSIONS
                /\ NormalizeNameForMatch(PathStem(Last(path))) # <<>>
                /\ Contains(NormalizeNameForMatch(PathStem(Last(path))), normalized_track)}

\* An album directory counts as non-empty while any file is left in it.
AlbumHasAnyFile(d, album_directory) ==
    \E path \in RGlob(d, album_directory) : IsFile(d, path)

\* _album_has_audio_files
AlbumHasAudioFiles(d, album_directory) ==
    \E path \in RGlob(d, album_directory) :
        IsFile(d, path) /\ PathSuffix(Last(path)) \in AUDIO_FILE_EXTENSIONS

\* The text of a media message: what it says and the title or path it names.
MediaText(what, about) == [what |-> what, about |-> about]
MediaResult(can_remove, messages, d) ==
    [can_remove |-> can_remove, messages |-> messages, disk |-> d]

\* With several matches, the first one is deleted.
RemoveAlbumMediaFirstMatch(d, artist_name, album_title) ==
    LET album_dirs == FindAlbumDirectories(d, artist_name, album_title)
    IN IF album_dirs = {} THEN MediaResult(TRUE, <<>>, d)
       ELSE MediaResult(TRUE, <<>>, RmTree(d, CHOOSE path \in album_dirs : TRUE))

\* _remove_album_media
RemoveAlbumMedia(d, artist_name, album_title) ==
    LET album_dirs == FindAlbumDirectories(d, artist_name, album_title)
        album_dir == CHOOSE path \in album_dirs : TRUE
    IN IF album_dirs = {} THEN MediaResult(TRUE, <<>>, d)
       ELSE IF Cardinality(album_dirs) > 1
       THEN MediaResult(FALSE,
                << <<MediaText("Multiple album folders matched", album_title), TRUE>> >>, d)
       ELSE IF ~IsWithinMusicDir(album_dir)
       THEN MediaResult(FALSE,
                << <<MediaText("Refused to delete album folder", album_dir), TRUE>> >>, d)
       ELSE MediaResult(TRUE, <<>>, RmTree(d, album_dir))

\* shutil.rmtree(album_dir) in _remove_track_media: the directory is removed,
\* or an exception other than FileNotFoundError is raised before anything was
\* removed or after the directory's contents were.
RmTreeOutcomes == {"removed", "fails", "fails_midway"}

RmTreeWith(d, path, outcome) ==
    CASE outcome = "removed" -> RmTree(d, path)
      [] outcome = "fails" -> d
      [] OTHER -> LET at == Lookup(d, path)
                  IN {n \in d : ~(IsPrefix(at, n.path) /\ n.path # at)}

\* _remove_track_media, `return True, messages` after the album folder could
\* not be deleted
FolderFailureFailsRemoval == FALSE
CanRemoveAfterFolderFailure == TRUE

\* _remove_track_media, with the way its shutil.rmtree(album_dir) ends
RemoveTrackMediaWith(d, artist_name, album_title, track_title, outcome) ==
    LET album_dirs == FindAlbumDirectories(d, artist_name, album_title)
        album_dir == CHOOSE path \in album_dirs : TRUE
        track_files == FindTrackFiles(d, album_dir, track_title)
        track_path == CHOOSE path \in track_files : TRUE
        unlinked == Unlink(d, track_path)
    IN IF album_dirs = {} THEN MediaResult(TRUE, <<>>, d)
       ELSE IF Cardinality(album_dirs) > 1
       THEN MediaResult(FALSE,
                << <<MediaText("Multiple album folders matched", album_title), TRUE>> >>, d)
       ELSE IF ~IsWithinMusicDir(album_dir)
       THEN MediaResult(FALSE,
                << <<MediaText("Refused to delete tracks", album_dir), TRUE>> >>, d)
       ELSE IF track_files = {} THEN MediaResult(TRUE, <<>>, d)
       ELSE IF Cardinality(track_files) > 1
       THEN MediaResult(FALSE,
                << <<MediaText("Multiple files matched track", track_title), TRUE>> >>, d)
       ELSE IF ~AlbumHasAudioFiles(unlinked, album_dir)
       THEN IF outcome = "removed"
            THEN MediaResult(TRUE, <<>>, RmTree(unlinked, album_dir))
            ELSE MediaResult(CanRemoveAfterFolderFailure,
                     << <<MediaText("was removed but the album folder could not be deleted",
                                    track_title), TRUE>> >>,
                     RmTreeWith(unlinked, album_dir, outcome))
       ELSE MediaResult(TRUE, <<>>, unlinked)

\* _remove_track_media when shutil.rmtree does not fail
RemoveTrackMedia(d, artist_name, album_title, track_title) ==
    RemoveTrackMediaWith(d, artist_name, album_title, track_title, "removed")

\* Every directory of MUSIC_DIR whose name matches the artist is deleted.
DeleteArtistDirectoryMatching(d, name) ==
    {n \in d : ~\E child \in IterDir(d, MUSIC_DIR) :
                   NameMatches(Last(child), name) /\ IsPrefix(child, n.path)}

\* _delete_artist_directory: the disk it leaves
DeleteArtistDirectory(d, name) ==
    LET artist_name == Strip(name)
        base_resolved == Resolve(MUSIC_DIR)
        target == Resolve(Join(MUSIC_DIR, artist_name))
        path_obj == Join(MUSIC_DIR, artist_name)
    IN IF artist_name = <<>> THEN d
       ELSE IF ~RelativeTo(target, base_resolved) THEN d
       ELSE IF target = base_resolved THEN d
       ELSE IF IsDir(d, path_obj) THEN RmTree(d, path_obj)
       ELSE IF PathExists(d, path_obj) THEN Unlink(d, path_obj)
       ELSE d

\* -------------------------------------------------------------- entry store
RawIds == {<<"a">>, <<"b", " ">>, <<" ">>}
DisplayNames == {<<"x">>, <<>>}
Indexes == {-1, 0, 1}
NoRow == [rowid |-> 0]
NotGiven == <<>>     \* artist_name=None, album_title=None: stored as ""

\* `with _lock:` can be entered only while no other thread holds it.
StoreLockBroken == TRUE
StoreLockFree == lock = NoThread

\* SELECT 1 FROM <table> WHERE id = ?
SelectById(rows, id) == {r \in rows : r.id = id}

\* The rowid SQLite gives a new row of a table declared without AUTOINCREMENT:
\* one more than the largest rowid in the table.
RECURSIVE MaxRowid(_)
MaxRowid(rows) ==
    IF rows = {} THEN 0
    ELSE LET r == CHOOSE x \in rows : TRUE
             m == MaxRowid(rows \ {r})
         IN IF r.rowid > m THEN r.rowid ELSE m

\* INSERT INTO <table> (id, ...) VALUES (?, ...); conn.commit().  id is the
\* PRIMARY KEY: inserting a second row with the same id raises IntegrityError.
Insert(rows, id, name, artist, album, now, uid) ==
    IF SelectById(rows, id) # {}
    THEN [error |-> "IntegrityError", rows |-> rows]
    ELSE [error |-> "",
          rows |-> rows \cup {[rowid |-> MaxRowid(rows) + 1, id |-> id, name |-> name,
                               artist |-> artist, album |-> album,
                               created_at |-> now, uid |-> uid]}]

\* ORDER BY id: the order of the primary key values
Ord(c) == CASE c = "a" -> 1 [] c = "b" -> 2 [] OTHER -> 0
RowBeforeById(r, q) == Ord(r.id[1]) < Ord(q.id[1])

\* ORDER BY created_at, rowid
RowBefore(r, q) ==
    r.created_at < q.created_at \/ (r.created_at = q.created_at /\ r.rowid < q.rowid)

RECURSIVE OrderRows(_)
OrderRows(rows) ==
    IF rows = {} THEN <<>>
    ELSE LET first == CHOOSE r \in rows : \A q \in rows \ {r} : RowBefore(r, q)
         IN <<first>> \o OrderRows(rows \ {first})

\* SELECT ... ORDER BY created_at, rowid LIMIT 1 OFFSET ?  (SQLite reads a
\* negative OFFSET as 0); fetchone() gives None when there is no such row.
SelectAtOffsetFromOne(rows, index) ==
    LET offset == IF index < 0 THEN 0 ELSE index
    IN IF offset < Cardinality(rows) /\ offset > 0 THEN OrderRows(rows)[offset] ELSE NoRow

SelectAtOffset(rows, index) ==
    LET offset == IF index < 0 THEN 0 ELSE index
    IN IF offset < Cardinality(rows) THEN OrderRows(rows)[offset + 1] ELSE NoRow

\* DELETE FROM <table> WHERE rowid = ?; conn.commit()
DeleteByRowid(rows, rowid) == {r \in rows : r.rowid # rowid}

\* The name column add_entry stores: the artist label falls back to the id,
\* album and track titles are the trimmed display name.
StoredName(kind, id, display_name) ==
    IF kind = "artist" /\ Strip(display_name) = <<>> THEN id ELSE Strip(display_name)

\* read_entries
read_entries(kind) ==
    LET rows == OrderRows(tables[kind])
    IN [i \in 1..Len(rows) |-> [id |-> rows[i].id, name |-> rows[i].name]]

NoCall == [call |-> "none", thread |-> NoThread]

\* The second advances: CURRENT_TIMESTAMP has one-second resolution.  Only the
\* order of the created_at values matters, so the clock never runs ahead of
\* the number of rows inserted.
Tick ==
    /\ clock < storeLog.rows
    /\ clock' = clock + 1
    /\ returned' = NoCall
    /\ UNCHANGED <<pc, frame, jobVars, mboxVars, tables, lock, storeLog>>
    /\ UNCHANGED <<disk, photoVars>>

AddPcs == {"add_lock", "add_select", "add_insert"}

\* add_entry: value.strip() and the empty-value return.  The caller is at
\* position `at`; caller is "select" when a select handler made the call and
\* goes on after it, "none" when the call is all there is.
AddEntryCall(t, at, kind, value, display_name, artist_name, album_title, caller) ==
    /\ pc[t] = at
    /\ storeLog.rows + Cardinality({u \in Threads : pc[u] \in AddPcs}) < MaxAdds
    /\ LET id == Strip(value)
       IN IF id = <<>>
          THEN /\ returned' =
                     [call |-> "add", thread |-> t,
                      ok |-> FALSE, msg |-> "Value cannot be empty.",
                      kind |-> kind, id |-> id, name |-> <<>>]
               /\ pc' = [pc EXCEPT ![t] = "idle"]
               /\ frame' = [frame EXCEPT ![t] = [messages |-> <<>>]]
          ELSE /\ pc' = [pc EXCEPT ![t] = "add_lock"]
               /\ frame' = [frame EXCEPT ![t] =
                     [kind |-> kind, value |-> id,
                      name |-> StoredName(kind, id, display_name),
                      artist |-> IF kind = "artist" THEN <<>> ELSE Strip(artist_name),
                      album |-> IF kind = "track" THEN Strip(album_title) ELSE <<>>,
                      existing |-> FALSE, caller |-> caller]]
               /\ returned' = NoCall
    /\ UNCHANGED <<jobVars, mboxVars, tables, lock, clock, storeLog>>
    /\ UNCHANGED <<disk, photoVars>>

AddEntryBegin(t, kind, value, display_name, artist_name, album_title) ==
    AddEntryCall(t, "idle", kind, value, display_name, artist_name, album_title, "none")

\* add_entry: `with _lock:` is entered
AddEntryLock(t) ==
    /\ pc[t] = "add_lock"
    /\ StoreLockFree
    /\ lock' = t
    /\ pc' = [pc EXCEPT ![t] = "add_select"]
    /\ returned' = NoCall
    /\ UNCHANGED <<frame, jobVars, mboxVars, tables, clock, storeLog>>
    /\ UNCHANGED <<disk, photoVars>>

\* add_entry: existing = conn.execute("SELECT 1 ... WHERE id = ?").fetchone()
AddEntrySelect(t) ==
    /\ pc[t] = "add_select"
    /\ frame' = [frame EXCEPT ![t].existing =
                    SelectById(tables[frame[t].kind], frame[t].value) # {}]
    /\ pc' = [pc EXCEPT ![t] = "add_insert"]
    /\ returned' = NoCall
    /\ UNCHANGED <<jobVars, mboxVars, tables, lock, clock, storeLog>>
    /\ UNCHANGED <<disk, photoVars>>

\* add_entry: `if existing: return False, ...`, else INSERT and commit; the
\* with block is left (also by an exception) and the result returned.
AddEntryKeepsGoing(existing) == FALSE
AddEntryRejects(existing) == existing

\* handle_artist_select / handle_album_select / handle_track_select:
\* `if not success: send_json(..., CONFLICT); return`
SelectGoesOn(success) == FALSE
SelectStops(success) == ~success

AddEntryInsert(t, sink) ==
    /\ pc[t] = "add_insert"
    /\ LET kind == frame[t].kind
           id == frame[t].value
           inserted == Insert(tables[kind], id, frame[t].name, frame[t].artist,
                              frame[t].album, clock, storeLog.rows + 1)
       IN IF AddEntryRejects(frame[t].existing)
          THEN /\ returned' =
                     [call |-> "add", thread |-> t,
                      ok |-> FALSE, msg |-> "already present.",
                      kind |-> kind, id |-> id, name |-> frame[t].name]
               /\ UNCHANGED <<tables, storeLog>>
          ELSE IF inserted.error # ""
          THEN /\ returned' =
                     [call |-> "add", thread |-> t,
                      ok |-> FALSE, msg |-> "IntegrityError raised",
                      kind |-> kind, id |-> id, name |-> frame[t].name]
               /\ UNCHANGED <<tables, storeLog>>
          ELSE /\ tables' = [tables EXCEPT ![kind] = inserted.rows]
               /\ storeLog' = [storeLog EXCEPT !.rows = @ + 1]
               /\ returned' =
                     [call |-> "add", thread |-> t,
                      ok |-> ~PublishRaises(sink),
                      msg |-> IF PublishRaises(sink) THEN "exception raised" ELSE "Added",
                      kind |-> kind, id |-> id, name |-> frame[t].name]
    /\ lock' = NoThread
    /\ IF frame[t].caller = "select" /\ ~SelectStops(returned'.ok)
       THEN /\ pc' = [pc EXCEPT ![t] = "select_trigger"]
            /\ frame' = [frame EXCEPT ![t] =
                  [kind |-> frame[t].kind, value |-> frame[t].value]]
       ELSE /\ pc' = [pc EXCEPT ![t] = "idle"]
            /\ frame' = [frame EXCEPT ![t] = [messages |-> <<>>]]
    /\ UNCHANGED <<jobVars, mboxVars, clock>>
    /\ UNCHANGED <<disk, photoVars>>

\* remove_entry: the first `with _lock:` block (the SELECT at OFFSET index)
\* and the `if row is None` return.
RemoveEntrySelect(t, kind, index) ==
    /\ pc[t] = "idle"
    /\ storeLog.removes < MaxRemoves
    /\ StoreLockFree
    /\ LET row == SelectAtOffset(tables[kind], index)
           len == Cardinality(tables[kind])
       IN IF row = NoRow
          THEN /\ returned' =
                     [call |-> "remove", thread |-> t, ok |-> FALSE,
                      msg |-> "Entry not found.",
                      label |-> <<>>, kind |-> kind, index |-> index, len |-> len,
                      selected |-> 0, deleted |-> {}]
               /\ UNCHANGED <<pc, frame, storeLog>>
          ELSE /\ pc' = [pc EXCEPT ![t] =
                     IF kind = "artist" THEN "remove_delete" ELSE "remove_media"]
               /\ frame' = [frame EXCEPT ![t] =
                     [kind |-> kind, index |-> index, len |-> len, rowid |-> row.rowid,
                      id |-> row.id, name |-> row.name, artist |-> row.artist,
                      album |-> row.album, selected |-> row.uid]]
               /\ storeLog' = [storeLog EXCEPT !.removes = @ + 1]
               /\ returned' = NoCall
    /\ UNCHANGED <<jobVars, mboxVars, tables, lock, clock>>
    /\ UNCHANGED <<disk, photoVars>>

\* remove_entry for albums and tracks: _remove_album_media / _remove_track_media
\* run between the two locked blocks; what they find on disk decides
\* can_remove and the messages, which are published.  MediaOutcomes are the
\* two ways they can end as far as the store is concerned; CleanMedia(t) is
\* what they do on the disk as it is.
MediaOutcomes ==
    {MediaResult(TRUE, <<>>, disk),
     MediaResult(FALSE, << <<MediaText("media removal refused", <<>>), TRUE>> >>, disk)}

CleanMedia(t) ==
    IF frame[t].kind = "album"
    THEN RemoveAlbumMedia(disk, frame[t].artist, frame[t].name)
    ELSE RemoveTrackMedia(disk, frame[t].artist, frame[t].album, frame[t].name)

\* CleanMedia(t) with the way the track cleaner's shutil.rmtree ends
CleanMediaWith(t, outcome) ==
    IF frame[t].kind = "album"
    THEN RemoveAlbumMedia(disk, frame[t].artist, frame[t].name)
    ELSE RemoveTrackMediaWith(disk, frame[t].artist, frame[t].album, frame[t].name, outcome)

RemoveEntryMedia(t, media, sink) ==
    /\ pc[t] = "remove_media"
    /\ media.messages # <<>> => AsyncLockFree
    /\ async_messages' = AppendAll(async_messages, Enqueued(media.messages, sink))
    /\ pubLog' = pubLog \o Enqueued(media.messages, sink)
    /\ disk' = media.disk
    /\ IF media.can_remove /\ ~EnqueueRaises(media.messages, sink)
       THEN /\ pc' = [pc EXCEPT ![t] = "remove_delete"]
            /\ returned' = NoCall
            /\ UNCHANGED frame
       ELSE /\ pc' = [pc EXCEPT ![t] = "idle"]
            /\ returned' =
                  [call |-> "remove", thread |-> t, ok |-> FALSE,
                   msg |-> IF EnqueueRaises(media.messages, sink) THEN "exception raised"
                           ELSE media.messages[1][1].what,
                   label |-> frame[t].name,
                   kind |-> frame[t].kind, index |-> frame[t].index,
                   len |-> frame[t].len, selected |-> frame[t].selected,
                   deleted |-> {}]
            /\ frame' = [frame EXCEPT ![t] = [messages |-> <<>>]]
    /\ UNCHANGED <<jobVars, async_lock, drains, nPublish, tables, lock, clock, storeLog>>
    /\ UNCHANGED photoVars

\* remove_entry has no statement that names _orpheus_queue: the items queued
\* for the removed entry stay where they are.
QueueWithoutEntry(q, kind, value) ==
    SelectSeq(q, LAMBDA item : ~(item.task.kind = kind /\ item.task.value = value))
QueueAfterRemove(q, kind, value) == q

\* remove_entry: the second `with _lock:` block (DELETE ... WHERE rowid = ?),
\* then the success return (for an artist, after _delete_artist_directory).
RemoveEntryDelete(t, sink) ==
    /\ pc[t] = "remove_delete"
    /\ StoreLockFree
    /\ LET kind == frame[t].kind
           rows == tables[kind]
           kept == DeleteByRowid(rows, frame[t].rowid)
       IN /\ tables' = [tables EXCEPT ![kind] = kept]
          /\ disk' = IF kind = "artist" THEN DeleteArtistDirectory(disk, frame[t].name)
                     ELSE disk
          /\ returned' =
                [call |-> "remove", thread |-> t, ok |-> ~PublishRaises(sink),
                 msg |-> IF PublishRaises(sink) THEN "exception raised" ELSE "Removed",
                 label |-> IF frame[t].name # <<>> THEN frame[t].name ELSE frame[t].id,
                 kind |-> kind, index |-> frame[t].index, len |-> frame[t].len,
                 selected |-> frame[t].selected,
                 deleted |-> {r.uid : r \in rows \ kept}]
    /\ orpheus_queue' = QueueAfterRemove(orpheus_queue, frame[t].kind, frame[t].id)
    /\ pc' = [pc EXCEPT ![t] = "idle"]
    /\ frame' = [frame EXCEPT ![t] = [messages |-> <<>>]]
    /\ UNCHANGED <<orpheus_worker, wstate, wjob, jobLog, started, nTrigger>>
    /\ UNCHANGED <<mboxVars, lock, clock, storeLog>>
    /\ UNCHANGED photoVars

\* ------------------------------------------------------------- photo cache
\* A file of PHOTOS_DIR is its name with its bytes; a key is the file's name.
AlbumPrefix == <<"a", "l", "b", "u", "m", "_">>
TmpSuffix == <<".", "t", "m", "p">>
NoFile == <<"NoFile">>

\* response.content of the image URL, and what is in a file half-way through
\* handle.write(data)
PhotoBytes == <<"p", "q">>
PartOf(data) == SubSeq(data, 1, Len(data) \div 2)

\* _normalize_photo_identifier
NormalizeUntrimmed(identifier) ==
    LET normalized == Strip(identifier)
    IN IF identifier = <<>> \/ normalized = <<>> THEN None
       ELSE IF \/ StartsWith(normalized, ".")
               \/ Contains(normalized, <<"/">>)
               \/ Contains(normalized, <<"\\">>)
               \/ Contains(normalized, DotDot)
       THEN None
       ELSE identifier

NormalizeAllowsSeparator(identifier) ==
    LET normalized == Strip(identifier)
    IN IF identifier = <<>> \/ normalized = <<>> THEN None
       ELSE IF \/ StartsWith(normalized, ".")
               \/ Contains(normalized, <<"\\">>)
               \/ Contains(normalized, DotDot)
       THEN None
       ELSE normalized

NormalizePhotoIdentifier(identifier) ==
    LET normalized == Strip(identifier)
    IN IF identifier = <<>> \/ normalized = <<>> THEN None
       ELSE IF \/ StartsWith(normalized, ".")
               \/ Contains(normalized, <<"/">>)
               \/ Contains(normalized, <<"\\">>)
               \/ Contains(normalized, DotDot)
       THEN None
       ELSE normalized

\* _artist_photo_key
ArtistPhotoKey(artist_id) == NormalizePhotoIdentifier(artist_id)

\* _album_photo_key
AlbumPhotoKey(album_id) ==
    LET normalized == NormalizePhotoIdentifier(album_id)
    IN IF normalized = None THEN None
       ELSE NormalizePhotoIdentifier(AlbumPrefix \o normalized)

\* _ensure_artist_photo / _ensure_album_photo: the key they pass on
PhotoKey(kind, id) == IF kind = "artist" THEN ArtistPhotoKey(id) ELSE AlbumPhotoKey(id)

\* Path.with_suffix(suffix) on a file name
WithSuffix(name, suffix) == PathStem(name) \o suffix

\* path.read_bytes(), NoFile when there is no such file
FileData(files, name) ==
    IF \E f \in files : f.name = name
    THEN (CHOOSE f \in files : f.name = name).data
    ELSE NoFile

\* path.exists() and path.is_file() and path.stat().st_size > 0
IsCached(files, name) == FileData(files, name) \notin {NoFile, <<>>}

\* open(name, "wb") ... write: the file holds exactly data
WriteFile(files, name, data) ==
    {f \in files : f.name # name} \cup {[name |-> name, data |-> data]}

\* temp_path.replace(path)
ReplaceFile(files, temp, name) ==
    IF temp = name THEN files
    ELSE {f \in files : f.name \notin {temp, name}}
         \cup {[name |-> name, data |-> FileData(files, temp)]}

\* `with _photo_lock:` can be entered only while no other thread holds it.
PhotoLockBroken == TRUE
PhotoLockFree == photo_lock = NoThread

\* A call's record in photo_seen: data is the bytes of the file it read or
\* returned a URL for, NoFile when it saw no file or returned "".
PhotoSeen(call, t, key, data) == [call |-> call, thread |-> t, key |-> key, data |-> data]

\* The record of a lookup, which keeps the identifier it was called with too.
PhotoRead(call, t, identifier, key, data) ==
    [call |-> call, thread |-> t, identifier |-> identifier, key |-> key, data |-> data]

\* _cached_photo_url(identifier): a URL when the file is there and not empty
CachedPhotoUrl(t, identifier) ==
    /\ pc[t] = "idle"
    /\ LET normalized == NormalizePhotoIdentifier(identifier)
       IN IF normalized = None
          THEN photo_seen' = PhotoRead("_cached_photo_url", t, identifier, None, NoFile)
          ELSE /\ PhotoLockFree
               /\ photo_seen' =
                     PhotoRead("_cached_photo_url", t, identifier, normalized,
                               IF IsCached(photo_files, normalized)
                               THEN FileData(photo_files, normalized) ELSE NoFile)
    /\ UNCHANGED <<pc, frame, jobVars, mboxVars, storeVars, disk, photo_files, photo_lock>>

\* handle_photo_request: the bytes it reads under _photo_lock (404 without a
\* file or with an empty one)
HandlePhotoRequest(t, identifier) ==
    /\ pc[t] = "idle"
    /\ LET normalized == NormalizePhotoIdentifier(identifier)
       IN IF normalized = None
          THEN photo_seen' = PhotoRead("handle_photo_request", t, identifier, None, NoFile)
          ELSE /\ PhotoLockFree
               /\ photo_seen' =
                     PhotoRead("handle_photo_request", t, identifier, normalized,
                               FileData(photo_files, normalized))
    /\ UNCHANGED <<pc, frame, jobVars, mboxVars, storeVars, disk, photo_files, photo_lock>>

\* _ensure_artist_photo / _ensure_album_photo and _ensure_cached_photo up to
\* requests.get: no key, an entry already cached and no URL return here.
EnsureCachedPhotoBegin(t, kind, id, image_url) ==
    /\ pc[t] = "idle"
    /\ LET key == PhotoKey(kind, id)
       IN IF key = None
          THEN /\ photo_seen' = PhotoRead("_ensure_cached_photo", t, id, None, NoFile)
               /\ UNCHANGED <<pc, frame>>
          ELSE /\ PhotoLockFree
               /\ IF IsCached(photo_files, key)
                  THEN /\ photo_seen' =
                             PhotoSeen("_ensure_cached_photo", t, key,
                                       FileData(photo_files, key))
                       /\ UNCHANGED <<pc, frame>>
                  ELSE IF image_url = None
                  THEN /\ photo_seen' = PhotoSeen("_ensure_cached_photo", t, key, NoFile)
                       /\ UNCHANGED <<pc, frame>>
                  ELSE /\ photo_seen' = PhotoRead("_cached_photo_url", t, key, key, NoFile)
                       /\ pc' = [pc EXCEPT ![t] = "photo_get"]
                       /\ frame' = [frame EXCEPT ![t] =
                             [kind |-> kind, id |-> id, key |-> key, data |-> <<>>]]
    /\ UNCHANGED <<jobVars, mboxVars, storeVars, disk, photo_files, photo_lock>>

\* requests.get(str(image_url), timeout=10) and raise_for_status(): what they
\* raise on a failed request, a timeout and an HTTP error status are
\* requests.RequestException and subclasses of it.
RequestExceptions == {"RequestException", "Timeout", "HTTPError"}
DownloadOutcomes == {"ok", "empty"} \cup RequestExceptions

\* response.content
ResponseContent(outcome) == IF outcome = "empty" THEN <<>> ELSE PhotoBytes

\* `if not data`
EmptyBodyIgnored(data) == FALSE
IsEmptyBody(data) == data = <<>>

\* requests.get / raise_for_status / response.content: a failed request and an
\* empty body return "".
EnsureCachedPhotoGet(t, outcome) ==
    /\ pc[t] = "photo_get"
    /\ LET data == ResponseContent(outcome)
       IN IF outcome \in RequestExceptions \/ IsEmptyBody(data)
          THEN /\ pc' = [pc EXCEPT ![t] = "idle"]
               /\ frame' = [frame EXCEPT ![t] = [messages |-> <<>>]]
               /\ photo_seen' = PhotoSeen("_ensure_cached_photo", t, frame[t].key, NoFile)
          ELSE /\ pc' = [pc EXCEPT ![t] = "photo_store"]
               /\ frame' = [frame EXCEPT ![t].data = data]
               /\ photo_seen' = NoCall
    /\ UNCHANGED <<jobVars, mboxVars, storeVars, disk, photo_files, photo_lock>>

\* `with _photo_lock:` the second look at the file, and temp_path.open("wb")
EnsureCachedPhotoOpen(t) ==
    /\ pc[t] = "photo_store"
    /\ PhotoLockFree
    /\ IF IsCached(photo_files, frame[t].key)
       THEN /\ pc' = [pc EXCEPT ![t] = "idle"]
            /\ frame' = [frame EXCEPT ![t] = [messages |-> <<>>]]
            /\ photo_seen' =
                  PhotoSeen("_ensure_cached_photo", t, frame[t].key,
                            FileData(photo_files, frame[t].key))
            /\ UNCHANGED <<photo_files, photo_lock>>
       ELSE /\ photo_lock' = t
            /\ photo_files' = WriteFile(photo_files, WithSuffix(frame[t].key, TmpSuffix), <<>>)
            /\ pc' = [pc EXCEPT ![t] = "photo_write"]
            /\ photo_seen' = NoCall
            /\ UNCHANGED frame
    /\ UNCHANGED <<jobVars, mboxVars, storeVars, disk>>

\* handle.write(data): the first part of the bytes is in the file
EnsureCachedPhotoWrite(t) ==
    /\ pc[t] = "photo_write"
    /\ photo_files' =
          WriteFile(photo_files, WithSuffix(frame[t].key, TmpSuffix), PartOf(frame[t].data))
    /\ pc' = [pc EXCEPT ![t] = "photo_flush"]
    /\ photo_seen' = NoCall
    /\ UNCHANGED <<frame, jobVars, mboxVars, storeVars, disk, photo_lock>>

\* the rest is written and the handle closed
EnsureCachedPhotoFlush(t) ==
    /\ pc[t] = "photo_flush"
    /\ photo_files' = WriteFile(photo_files, WithSuffix(frame[t].key, TmpSuffix), frame[t].data)
    /\ pc' = [pc EXCEPT ![t] = "photo_replace"]
    /\ photo_seen' = NoCall
    /\ UNCHANGED <<frame, jobVars, mboxVars, storeVars, disk, photo_lock>>

\* temp_path.replace(path); the with block is left and the URL returned
EnsureCachedPhotoReplace(t) ==
    /\ pc[t] = "photo_replace"
    /\ photo_files' =
          ReplaceFile(photo_files, WithSuffix(frame[t].key, TmpSuffix), frame[t].key)
    /\ photo_lock' = NoThread
    /\ pc' = [pc EXCEPT ![t] = "idle"]
    /\ frame' = [frame EXCEPT ![t] = [messages |-> <<>>]]
    /\ photo_seen' =
          PhotoSeen("_ensure_cached_photo", t, frame[t].key,
                    FileData(photo_files', frame[t].key))
    /\ UNCHANGED <<jobVars, mboxVars, storeVars, disk>>

\* purge_cached_photos, the loop over PHOTOS_DIR.iterdir(): what is left when
\* each child that is a file has been unlinked (the cache holds files only)
UnlinkAllButOne(files) == IF files = {} THEN {} ELSE {CHOOSE f \in files : TRUE}
UnlinkFiles(files) == {}

\* purge_cached_photos, under _photo_lock: `removed` counts the unlinked
\* files; a directory that is missing and one that is empty both give 0.
PurgeCachedPhotos(t) ==
    /\ pc[t] = "idle"
    /\ PhotoLockFree
    /\ photo_files' = UnlinkFiles(photo_files)
    /\ photo_seen' =
          [call |-> "purge_cached_photos", thread |-> t,
           removed |-> Cardinality(photo_files \ photo_files')]
    /\ UNCHANGED <<pc, frame, jobVars, mboxVars, storeVars, disk, photo_lock>>

\* ----------------------------------------------------------------- search
\* handle_artist_search.  A response is what send_json was called with; the
\* record of a handler holds every response it sent and whether an exception
\* left it.
SearchQueries == {<<"q">>, <<" ", "q">>, <<" ">>, <<>>}
LimitParams == {"5", "0", "-1", "x"}

Response(status, payload) == [status |-> status, payload |-> payload]
Handled(t, responses, raised) ==
    [call |-> "handle_artist_search", thread |-> t, responses |-> responses,
     raised |-> raised]

\* int(limit_raw), 10 on ValueError
ParseLimit(limit_raw) ==
    CASE limit_raw = "5" -> 5 [] limit_raw = "0" -> 0 [] limit_raw = "-1" -> 0 - 1
      [] OTHER -> 10

\* `"app_id" in message`, for the texts a RuntimeError carries here
MentionsAppId(message) == message \in {"Qobuz app_id is not configured.", "Invalid app_id"}

\* handle_artist_search: `except RuntimeError as exc`, the status it answers
\* with
ErrorStatus(message) ==
    IF MentionsAppId(message) THEN "SERVICE_UNAVAILABLE" ELSE "BAD_GATEWAY"

\* handle_artist_search up to the call of _qobuz_artist_search
HandleArtistSearchBegin(t, q, limit_raw) ==
    /\ pc[t] = "idle"
    /\ LET query == Strip(q)
       IN IF query = <<>>
          THEN /\ returned' =
                     Handled(t, <<Response("BAD_REQUEST", "Missing search query.")>>, FALSE)
               /\ UNCHANGED <<pc, frame>>
          ELSE /\ pc' = [pc EXCEPT ![t] = "search_client"]
               /\ frame' = [frame EXCEPT ![t] =
                     [query |-> query, limit |-> ParseLimit(limit_raw)]]
               /\ returned' = NoCall
    /\ UNCHANGED <<jobVars, mboxVars, tables, lock, clock, storeLog, disk, photoVars>>

\* _qobuz_search: `if limit <= 0: limit = 10`, then _get_qobuz_client(), which
\* raises RuntimeError without an app_id or without the Qobuz module; the
\* handler answers a RuntimeError with its text.
ClientOutcomes == {"client", "no_app_id", "no_module"}

QobuzGetClient(t, outcome) ==
    /\ pc[t] = "search_client"
    /\ IF outcome = "client"
       THEN /\ pc' = [pc EXCEPT ![t] = "search_call"]
            /\ frame' = [frame EXCEPT ![t].limit = IF @ <= 0 THEN 10 ELSE @]
            /\ returned' = NoCall
       ELSE LET message == IF outcome = "no_app_id"
                           THEN "Qobuz app_id is not configured."
                           ELSE "Qobuz integration is unavailable."
            IN /\ pc' = [pc EXCEPT ![t] = "idle"]
               /\ frame' = [frame EXCEPT ![t] = [messages |-> <<>>]]
               /\ returned' = Handled(t, <<Response(ErrorStatus(message), message)>>, FALSE)
    /\ UNCHANGED <<jobVars, mboxVars, tables, lock, clock, storeLog, disk, photoVars>>

\* session.search(kind, query, limit=limit): it returns the result, raises
\* the RuntimeError of the Qobuz module (a JSON text with a message, or a
\* plain text), raises requests.exceptions.Timeout, or raises something else.
SearchOutcomes == {"results", "RuntimeError_json", "RuntimeError_text", "Timeout", "Exception"}

\* _qobuz_search: the text of the RuntimeError each except clause raises
SearchErrorWithoutTimeoutClause(outcome) ==
    CASE outcome = "RuntimeError_json" -> "Invalid app_id"
      [] outcome = "RuntimeError_text" -> "search failed"
      [] OTHER -> "Unable to reach Qobuz search endpoint."

SearchError(outcome) ==
    CASE outcome = "RuntimeError_json" -> "Invalid app_id"
      [] outcome = "RuntimeError_text" -> "search failed"
      [] outcome = "Timeout" -> "Qobuz search timed out."
      [] OTHER -> "Unable to reach Qobuz search endpoint."

\* _qobuz_search's call of the client and the rest of handle_artist_search
QobuzSearchCall(t, outcome) ==
    /\ pc[t] = "search_call"
    /\ returned' =
          IF outcome = "results"
          THEN Handled(t, <<Response("OK", "results")>>, FALSE)
          ELSE Handled(t, <<Response(ErrorStatus(SearchError(outcome)),
                                     SearchError(outcome))>>, FALSE)
    /\ pc' = [pc EXCEPT ![t] = "idle"]
    /\ frame' = [frame EXCEPT ![t] = [messages |-> <<>>]]
    /\ UNCHANGED <<jobVars, mboxVars, tables, lock, clock, storeLog, disk, photoVars>>

\* ---------------------------------------------------------- select handlers
\* handle_artist_select / handle_album_select / handle_track_select.  A request
\* carries the id, a display name and, for albums and tracks, an image URL;
\* a track request names its album by album_id.

\* _ensure_album_photo(album_id, url) as one step: the cache as it can be
\* afterwards (nothing stored without a key or a URL, for a cached key, and
\* when the download fails or is empty)
PhotoPrimed(files, album_id, image_url) ==
    LET key == AlbumPhotoKey(album_id)
    IN IF key = None \/ image_url = None \/ IsCached(files, key) THEN {files}
       ELSE {files, WriteFile(files, key, PhotoBytes)}

\* The handler up to its add_entry call: the `if not ..._id` answer (400), and
\* for albums and tracks the photo of the album.
HandleSelectBegin(t, kind, raw_id, name, album_id, image_url) ==
    /\ pc[t] = "idle"
    /\ storeLog.rows + Cardinality({u \in Threads : pc[u] \in AddPcs \cup {"select_add"}})
          < MaxAdds
    /\ LET id == Strip(raw_id)
       IN IF id = <<>>
          THEN /\ returned' =
                     [call |-> "select", thread |-> t, ok |-> FALSE, msg |-> "Missing id.",
                      kind |-> kind, id |-> id, name |-> <<>>]
               /\ UNCHANGED <<pc, frame, photo_files>>
          ELSE /\ pc' = [pc EXCEPT ![t] = "select_add"]
               /\ frame' = [frame EXCEPT ![t] = [kind |-> kind, value |-> id, name |-> name]]
               /\ returned' = NoCall
               /\ photo_files' \in
                     (IF kind = "artist" THEN {photo_files}
                      ELSE PhotoPrimed(photo_files,
                                       IF kind = "album" THEN id ELSE album_id, image_url))
    /\ UNCHANGED <<jobVars, mboxVars, tables, lock, clock, storeLog, disk, photo_lock,
                   photo_seen>>

\* success, add_message = add_entry(kind, id, display_name=...)
SelectAdd(t) ==
    AddEntryCall(t, "select_add", frame[t].kind, frame[t].value, frame[t].name,
                 NotGiven, NotGiven, "select")

\* ---------------------------------------------------------- specifications
\* The root, /d and the music directory /d/m, empty.
BaseDisk == {Dir(<<>>), Dir(<< <<"d">> >>), Dir(MUSIC_DIR)}

Init ==
    /\ pc = [t \in Threads |-> "idle"]
    /\ frame = [t \in Threads |-> [messages |-> <<>>]]
    /\ orpheus_queue = <<>>
    /\ orpheus_worker = 0
    /\ wstate = [w \in Workers |-> "unstarted"]
    /\ wjob = [w \in Workers |-> None]
    /\ async_messages = <<>>
    /\ async_lock = NoThread
    /\ jobLog = <<>>
    /\ started = <<>>
    /\ nTrigger = 0
    /\ pubLog = <<>>
    /\ drains = <<>>
    /\ nPublish = 0
    /\ tables = [k \in Kinds |-> {}]
    /\ lock = NoThread
    /\ clock = 0
    /\ returned = NoCall
    /\ storeLog = [rows |-> 0, removes |-> 0]
    /\ disk = BaseDisk
    /\ photo_files = {}
    /\ photo_lock = NoThread
    /\ photo_seen = NoCall

NextJobs ==
    \/ \E t \in Threads, kind \in Kinds, value \in JobRawValues : Trigger(t, kind, value)
    \/ \E t \in Threads : EnsureOrpheusWorker(t)
    \/ \E t \in Threads : QueueOrpheusTask(t)
    \/ \E w \in Workers : WorkerGet(w)
    \/ \E w \in Workers, outcome \in Outcomes, sink \in SinkBehaviours :
          WorkerFinish(w, outcome, sink)

SpecJobs == Init /\ [][NextJobs]_vars

\* The worker thread is scheduled (a waiting get returns when the queue holds
\* an item) and every thunk that began ends.
WorkerFairness ==
    /\ WF_vars(\E w \in Workers : WorkerGet(w))
    /\ WF_vars(\E w \in Workers, outcome \in Outcomes, sink \in SinkBehaviours :
                  WorkerFinish(w, outcome, sink))

SpecJobsFair == Init /\ [][NextJobs]_vars /\ WorkerFairness

NextMailbox ==
    \/ \E t \in Threads, is_error \in BOOLEAN : EnqueueAsyncMessage(t, is_error)
    \/ \E t \in Threads : ConsumeBegin(t)
    \/ \E t \in Threads : ConsumeCopyStep(t)
    \/ \E t \in Threads : ConsumeClearStep(t)

SpecMailbox == Init /\ [][NextMailbox]_vars

NextStore ==
    \/ Tick
    \/ \E t \in Threads, kind \in Kinds, value \in RawIds, display_name \in DisplayNames :
          AddEntryBegin(t, kind, value, display_name, NotGiven, NotGiven)
    \/ \E t \in Threads : AddEntryLock(t)
    \/ \E t \in Threads : AddEntrySelect(t)
    \/ \E t \in Threads, sink \in SinkBehaviours : AddEntryInsert(t, sink)
    \/ \E t \in Threads, kind \in Kinds, index \in Indexes : RemoveEntrySelect(t, kind, index)
    \/ \E t \in Threads, media \in MediaOutcomes, sink \in SinkBehaviours :
          RemoveEntryMedia(t, media, sink)
    \/ \E t \in Threads, sink \in SinkBehaviours : RemoveEntryDelete(t, sink)

SpecStore == Init /\ [][NextStore]_vars

\* Media cleanup: a library already on disk and one entry already stored (as
\* add_entry stores it), then remove_entry calls.
OwlCity == <<"O", "w">>
OwlCityTribute == <<"O", "w", " ", "T">>
OceanEyes == <<"E">>
Fireflies == <<"s", ".", "w", "v">>
Vanilla == <<"t", ".", "w", "v">>
Cover == <<"c", ".", "j">>
ArtistDir == Append(MUSIC_DIR, OwlCity)
AlbumDir == Append(ArtistDir, OceanEyes)
TributeDir == Append(MUSIC_DIR, OwlCityTribute)
OutsideDir == << <<"d">>, <<"x">> >>

OneAlbum == BaseDisk \cup {Dir(ArtistDir), Dir(AlbumDir), File(Append(AlbumDir, Fireflies))}

DiskChoices ==
    {BaseDisk,
     OneAlbum,
     OneAlbum \cup {File(Append(AlbumDir, Vanilla))},
     OneAlbum \cup {File(Append(AlbumDir, Cover))},
     OneAlbum \cup {Dir(TributeDir), Dir(Append(TributeDir, OceanEyes)),
                    File(Append(Append(TributeDir, OceanEyes), Fireflies))},
     OneAlbum \cup {Dir(OutsideDir), Dir(Append(OutsideDir, OceanEyes)),
                    File(Append(Append(OutsideDir, OceanEyes), Fireflies))}}

StoredArtists == {OwlCity, <<>>, DotDot, <<".", ".", "/", "x">>}
StoredArtistNames == {OwlCity, DotDot, <<".", ".", "/", "x">>, <<"O", "w", "/", ".", ".">>, <<"n">>}
StoredAlbumTitles == {OceanEyes, <<"m">>}
StoredTrackTitles == {<<"s">>, <<"z">>}

MediaEntries ==
    {[kind |-> "artist", name |-> n, artist |-> <<>>, album |-> <<>>] : n \in StoredArtistNames}
    \cup {[kind |-> "album", name |-> n, artist |-> a, album |-> <<>>] :
             n \in StoredAlbumTitles, a \in StoredArtists}
    \cup {[kind |-> "track", name |-> n, artist |-> a, album |-> b] :
             n \in StoredTrackTitles, a \in StoredArtists, b \in StoredAlbumTitles}

InitMedia ==
    /\ pc = [t \in Threads |-> "idle"]
    /\ frame = [t \in Threads |-> [messages |-> <<>>]]
    /\ orpheus_queue = <<>>
    /\ orpheus_worker = 0
    /\ wstate = [w \in Workers |-> "unstarted"]
    /\ wjob = [w \in Workers |-> None]
    /\ async_messages = <<>>
    /\ async_lock = NoThread
    /\ jobLog = <<>>
    /\ started = <<>>
    /\ nTrigger = 0
    /\ pubLog = <<>>
    /\ drains = <<>>
    /\ nPublish = 0
    /\ \E e \in MediaEntries :
          tables = [k \in Kinds |->
                      IF k = e.kind
                      THEN Insert({}, <<"a">>, e.name, e.artist, e.album, 0, 1).rows
                      ELSE {}]
    /\ lock = NoThread
    /\ clock = 0
    /\ returned = NoCall
    /\ storeLog = [rows |-> 1, removes |-> 0]
    /\ disk \in DiskChoices
    /\ photo_files = {}
    /\ photo_lock = NoThread
    /\ photo_seen = NoCall

NextMedia ==
    \/ \E t \in Threads, kind \in Kinds, index \in Indexes : RemoveEntrySelect(t, kind, index)
    \/ \E t \in Threads, sink \in SinkBehaviours : RemoveEntryMedia(t, CleanMedia(t), sink)
    \/ \E t \in Threads, sink \in SinkBehaviours : RemoveEntryDelete(t, sink)

SpecMedia == InitMedia /\ [][NextMedia]_vars

\* Removal while fetching: an album or track entry with id "a" is stored and
\* its album is on disk; requests queue fetch jobs for that id and remove the
\* entry, in any order, while the worker runs the jobs.
QueuedKinds == {"album", "track"}

InitRemoveQueued ==
    /\ InitMedia
    /\ disk = OneAlbum
    /\ \E k \in QueuedKinds :
          /\ tables[k] # {}
          /\ \A r \in tables[k] :
                /\ r.artist = OwlCity
                /\ r.name = (IF k = "album" THEN OceanEyes ELSE <<"s">>)
                /\ r.album = (IF k = "album" THEN <<>> ELSE OceanEyes)

NextRemoveQueued ==
    \/ \E t \in Threads, kind \in QueuedKinds : Trigger(t, kind, <<"a">>)
    \/ \E t \in Threads : EnsureOrpheusWorker(t)
    \/ \E t \in Threads : QueueOrpheusTask(t)
    \/ \E w \in Workers : WorkerGet(w)
    \/ \E w \in Workers, outcome \in Outcomes, sink \in SinkBehaviours :
          WorkerFinish(w, outcome, sink)
    \/ \E t \in Threads, kind \in QueuedKinds : RemoveEntrySelect(t, kind, 0)
    \/ \E t \in Threads, sink \in SinkBehaviours : RemoveEntryMedia(t, CleanMedia(t), sink)
    \/ \E t \in Threads, sink \in SinkBehaviours : RemoveEntryDelete(t, sink)

SpecRemoveQueued == InitRemoveQueued /\ [][NextRemoveQueued]_vars /\ WorkerFairness

\* Album lookup: a library with the artist directory, its album, a second
\* top-level directory and a nested directory, and one album entry stored
\* with an artist name that may hold a path separator.
SlashArtist == <<"O", "w", "/", ".", ".">>
NestedArtist == <<"O", "/", "w">>
NestedDir == Append(Append(MUSIC_DIR, <<"O">>), <<"w">>)
LookupArtists == {OwlCity, SlashArtist, NestedArtist, <<>>, <<"n">>}
LookupTitles == {OceanEyes, <<"T">>}
LookupDisks ==
    {OneAlbum \cup {Dir(TributeDir), Dir(Append(TributeDir, OceanEyes))},
     OneAlbum \cup {Dir(Append(MUSIC_DIR, <<"O">>)), Dir(NestedDir),
                    Dir(Append(NestedDir, <<"T">>))}}

InitLookup ==
    /\ pc = [t \in Threads |-> "idle"]
    /\ frame = [t \in Threads |-> [messages |-> <<>>]]
    /\ orpheus_queue = <<>>
    /\ orpheus_worker = 0
    /\ wstate = [w \in Workers |-> "unstarted"]
    /\ wjob = [w \in Workers |-> None]
    /\ async_messages = <<>>
    /\ async_lock = NoThread
    /\ jobLog = <<>>
    /\ started = <<>>
    /\ nTrigger = 0
    /\ pubLog = <<>>
    /\ drains = <<>>
    /\ nPublish = 0
    /\ \E artist \in LookupArtists, title \in LookupTitles :
          tables = [k \in Kinds |->
                      IF k = "album"
                      THEN Insert({}, <<"a">>, title, artist, <<>>, 0, 1).rows
                      ELSE {}]
    /\ lock = NoThread
    /\ clock = 0
    /\ returned = NoCall
    /\ storeLog = [rows |-> 1, removes |-> 0]
    /\ disk \in LookupDisks
    /\ photo_files = {}
    /\ photo_lock = NoThread
    /\ photo_seen = NoCall

SpecLookup == InitLookup /\ [][NextMedia]_vars

\* Track cleanup on a filesystem whose rmtree can fail: the library and one
\* track entry as for the media cleanup, then remove_entry('track', i) calls.
InitTrackFolder == InitMedia /\ tables["track"] # {}

NextTrackFolder ==
    \/ \E t \in Threads, index \in Indexes : RemoveEntrySelect(t, "track", index)
    \/ \E t \in Threads, outcome \in RmTreeOutcomes, sink \in SinkBehaviours :
          RemoveEntryMedia(t, CleanMediaWith(t, outcome), sink)
    \/ \E t \in Threads, sink \in SinkBehaviours : RemoveEntryDelete(t, sink)

SpecTrackFolder == InitTrackFolder /\ [][NextTrackFolder]_vars

\* Titles without letters or digits: a library that holds a directory and an
\* audio file named exactly like such a title, and one album or track entry.
Dash == <<"-">>
EmptyFormTitles == {Dash, DotDot}
DashDisks ==
    {OneAlbum \cup {Dir(Append(ArtistDir, Dash)), File(Append(AlbumDir, Dash \o <<".", "w", "v">>))},
     OneAlbum \cup {Dir(Append(MUSIC_DIR, Dash)), Dir(Append(Append(MUSIC_DIR, Dash), Dash))}}
DashEntries ==
    {[kind |-> "album", name |-> n, artist |-> a, album |-> <<>>] :
        n \in EmptyFormTitles \cup {OceanEyes}, a \in {OwlCity, <<>>, Dash}}
    \cup {[kind |-> "track", name |-> n, artist |-> a, album |-> OceanEyes] :
             n \in EmptyFormTitles \cup {<<"s">>}, a \in {OwlCity, <<>>}}

InitEmptyTitles ==
    /\ pc = [t \in Threads |-> "idle"]
    /\ frame = [t \in Threads |-> [messages |-> <<>>]]
    /\ orpheus_queue = <<>>
    /\ orpheus_worker = 0
    /\ wstate = [w \in Workers |-> "unstarted"]
    /\ wjob = [w \in Workers |-> None]
    /\ async_messages = <<>>
    /\ async_lock = NoThread
    /\ jobLog = <<>>
    /\ started = <<>>
    /\ nTrigger = 0
    /\ pubLog = <<>>
    /\ drains = <<>>
    /\ nPublish = 0
    /\ \E e \in DashEntries :
          tables = [k \in Kinds |->
                      IF k = e.kind
                      THEN Insert({}, <<"a">>, e.name, e.artist, e.album, 0, 1).rows
                      ELSE {}]
    /\ lock = NoThread
    /\ clock = 0
    /\ returned = NoCall
    /\ storeLog = [rows |-> 1, removes |-> 0]
    /\ disk \in DashDisks
    /\ photo_files = {}
    /\ photo_lock = NoThread
    /\ photo_seen = NoCall

SpecEmptyTitles == InitEmptyTitles /\ [][NextMedia]_vars

\* Name matching: a library with one artist directory holding one album
\* directory, and one album entry stored with an artist name; the names
\* differ in case, accents and punctuation.
AlbumZ == <<"z">>
ArtistDirNames ==
    {<<"O", "w">>, <<"o", "-", "w">>, <<"O", " ", "w">>, <<"e'", "w">>, <<"E", "w">>,
     <<"E'", "W">>, <<"w">>, <<"-">>}
ArtistTargets ==
    {<<"o", "w">>, <<"O", "W">>, <<"w">>, <<"e">>, <<"e'">>, <<"e", "'">>, <<"w", "o">>,
     <<"-">>}

InitNames ==
    /\ pc = [t \in Threads |-> "idle"]
    /\ frame = [t \in Threads |-> [messages |-> <<>>]]
    /\ orpheus_queue = <<>>
    /\ orpheus_worker = 0
    /\ wstate = [w \in Workers |-> "unstarted"]
    /\ wjob = [w \in Workers |-> None]
    /\ async_messages = <<>>
    /\ async_lock = NoThread
    /\ jobLog = <<>>
    /\ started = <<>>
    /\ nTrigger = 0
    /\ pubLog = <<>>
    /\ drains = <<>>
    /\ nPublish = 0
    /\ \E target \in ArtistTargets :
          tables = [k \in Kinds |->
                      IF k = "album"
                      THEN Insert({}, <<"a">>, AlbumZ, target, <<>>, 0, 1).rows
                      ELSE {}]
    /\ lock = NoThread
    /\ clock = 0
    /\ returned = NoCall
    /\ storeLog = [rows |-> 1, removes |-> 0]
    /\ \E name \in ArtistDirNames :
          disk = BaseDisk \cup {Dir(Append(MUSIC_DIR, name)),
                                Dir(Append(Append(MUSIC_DIR, name), AlbumZ))}
    /\ photo_files = {}
    /\ photo_lock = NoThread
    /\ photo_seen = NoCall

SpecNames == InitNames /\ [][NextMedia]_vars

\* Photo cache: artist and album ids as the handlers pass them, among them
\* one with a ".tmp" ending and one that begins with "album_".
ArtistPhotoIds == {<<"x">>, <<"x">> \o TmpSuffix, AlbumPrefix \o <<"x">>, DotDot}
AlbumPhotoIds == {<<"x">>, DotDot}
PhotoIds(kind) == IF kind = "artist" THEN ArtistPhotoIds ELSE AlbumPhotoIds
PhotoRequests ==
    {PhotoKey(kind, id) : kind \in {"artist", "album"}, id \in ArtistPhotoIds} \ {None}
ImageUrls == {None, <<"u">>}

NextPhotos ==
    \/ \E t \in Threads, identifier \in PhotoRequests : CachedPhotoUrl(t, identifier)
    \/ \E t \in Threads, identifier \in PhotoRequests : HandlePhotoRequest(t, identifier)
    \/ \E t \in Threads, kind \in {"artist", "album"} :
          \E id \in PhotoIds(kind), image_url \in ImageUrls :
             EnsureCachedPhotoBegin(t, kind, id, image_url)
    \/ \E t \in Threads, outcome \in DownloadOutcomes : EnsureCachedPhotoGet(t, outcome)
    \/ \E t \in Threads : EnsureCachedPhotoOpen(t)
    \/ \E t \in Threads : EnsureCachedPhotoWrite(t)
    \/ \E t \in Threads : EnsureCachedPhotoFlush(t)
    \/ \E t \in Threads : EnsureCachedPhotoReplace(t)
    \/ \E t \in Threads : PurgeCachedPhotos(t)

SpecPhotos == Init /\ [][NextPhotos]_vars

\* Photo identifiers as a request can carry them: every string of at most
\* MaxIdLen characters, among them the ones _normalize_photo_identifier looks
\* for.
IdChars == {"a", ".", "/", "\\", " "}
RawIdentifiers == UNION {[1..n -> IdChars] : n \in 0..MaxIdLen}

NextIdentifiers ==
    \/ \E t \in Threads, identifier \in RawIdentifiers : CachedPhotoUrl(t, identifier)
    \/ \E t \in Threads, identifier \in RawIdentifiers : HandlePhotoRequest(t, identifier)

SpecIdentifiers == Init /\ [][NextIdentifiers]_vars

NextSearch ==
    \/ \E t \in Threads, q \in SearchQueries, limit_raw \in LimitParams :
          HandleArtistSearchBegin(t, q, limit_raw)
    \/ \E t \in Threads, outcome \in ClientOutcomes : QobuzGetClient(t, outcome)
    \/ \E t \in Threads, outcome \in SearchOutcomes : QobuzSearchCall(t, outcome)

SpecSearch == Init /\ [][NextSearch]_vars

\* Cache paths: identifiers with separators, dots and blanks given to the
\* lookups, to /photos/ and to the cache-filling calls of both kinds.
PathIdentifiers ==
    {<<"a">>, <<" ", "a">>, <<"a", ".", "b">>, <<".", "a">>, <<"a", "/", "b">>,
     <<"/", "a">>, <<"a", "\\", "b">>, DotDot, <<"a", ".", ".">>, <<".", ".", "/", "a">>,
     <<" ">>, <<>>}

NextPhotoPaths ==
    \/ \E t \in Threads, identifier \in PathIdentifiers : CachedPhotoUrl(t, identifier)
    \/ \E t \in Threads, identifier \in PathIdentifiers : HandlePhotoRequest(t, identifier)
    \/ \E t \in Threads, kind \in {"artist", "album"} :
          \E id \in PathIdentifiers, image_url \in ImageUrls :
             EnsureCachedPhotoBegin(t, kind, id, image_url)
    \/ \E t \in Threads, outcome \in DownloadOutcomes : EnsureCachedPhotoGet(t, outcome)
    \/ \E t \in Threads : EnsureCachedPhotoOpen(t)
    \/ \E t \in Threads : EnsureCachedPhotoWrite(t)
    \/ \E t \in Threads : EnsureCachedPhotoFlush(t)
    \/ \E t \in Threads : EnsureCachedPhotoReplace(t)

SpecPhotoPaths == Init /\ [][NextPhotoPaths]_vars

NextPublish ==
    \/ \E t \in Threads, what \in PublishTexts, is_error \in BOOLEAN, webhook \in BOOLEAN :
          EnqueueAppend(t, what, is_error, webhook)
    \/ \E t \in Threads, sink \in SinkBehaviours : SinkPostEnds(t, sink)
    \/ \E t \in Threads : ConsumeBegin(t)
    \/ \E t \in Threads : ConsumeCopyStep(t)
    \/ \E t \in Threads : ConsumeClearStep(t)

SpecPublish == Init /\ [][NextPublish]_vars

\* Select requests: ids that can be fetched, one that starts with '#', and
\* missing ones.
SelectIds == {<<"a">>, <<"a", " ">>, <<"#", "a">>, <<" ">>, <<>>}

NextSelect ==
    \/ \E t \in Threads, kind \in Kinds, raw_id \in SelectIds :
          \E album_id \in {<<>>, <<"a">>}, image_url \in ImageUrls :
             HandleSelectBegin(t, kind, raw_id, <<"x">>, album_id, image_url)
    \/ \E t \in Threads : SelectAdd(t)
    \/ \E t \in Threads : AddEntryLock(t)
    \/ \E t \in Threads : AddEntrySelect(t)
    \/ \E t \in Threads, sink \in SinkBehaviours : AddEntryInsert(t, sink)
    \/ \E t \in Threads : SelectTrigger(t)
    \/ \E t \in Threads : EnsureOrpheusWorker(t)
    \/ \E t \in Threads : QueueOrpheusTask(t)
    \/ \E w \in Workers : WorkerGet(w)
    \/ \E w \in Workers, outcome \in Outcomes, sink \in SinkBehaviours :
          WorkerFinish(w, outcome, sink)

SpecSelect == Init /\ [][NextSelect]_vars

Next == NextJobs \/ NextMailbox \/ NextStore \/ NextMedia \/ NextPhotos \/ NextIdentifiers
        \/ NextSearch \/ NextRemoveQueued \/ NextTrackFolder \/ NextPhotoPaths \/ NextPublish \/ NextSelect

Spec == Init /\ [][Next]_vars

\* ------------------------------------------------------------------ claims
RECURSIVE Flatten(_)
Flatten(ss) == IF ss = <<>> THEN <<>> ELSE Head(ss) \o Flatten(Tail(ss))

Count(x, seq) == Cardinality({i \in 1..Len(seq) : seq[i] = x})

Jobs == 1..Len(jobLog)

\* C1: at every moment at most one queued job's thunk is executing, however
\* many request threads are inside _queue_orpheus_task.
C1_OneThunkAtATime == Cardinality({w \in Workers : wstate[w] = "running"}) <= 1

\* A thunk is executing, another job waits in the queue, and a request thread
\* is inside _queue_orpheus_task.
C1_Witness ==
    /\ \E w \in Workers : wstate[w] = "running"
    /\ orpheus_queue # <<>>
    /\ \E t \in Threads : pc[t] \in {"ensure_worker", "queue_put"}

\* C2: jobs start in the order of their put: when job b has started, every job
\* put before it has already finished (returned or raised).
C2_StartInEnqueueOrder ==
    \A a, b \in Jobs :
        (a < b /\ jobLog[b].state # "queued") => jobLog[a].state = "done"

\* Job 1 finished, job 2 is executing (blocking), job 3 waits behind it.
C2_Witness ==
    /\ Len(jobLog) = 3
    /\ jobLog[1].state = "done"
    /\ jobLog[2].state = "running"
    /\ jobLog[3].state = "queued"
    /\ Len(orpheus_queue) = 1

\* C3: once a thunk has raised, the worker thread is still alive and looping,
\* no job was skipped (the thunks started are jobs 1..n in order) and the
\* queue holds exactly the jobs not yet started, in enqueue order.
C3_WorkerSurvivesException ==
    (\E j \in Jobs : jobLog[j].outcome = "raise") =>
        /\ IsAlive(orpheus_worker)
        /\ \A i \in 1..Len(started) : started[i] = i
        /\ Len(orpheus_queue) = Len(jobLog) - Len(started)
        /\ \A i \in 1..Len(orpheus_queue) : orpheus_queue[i].job = Len(started) + i

\* Job 1 raised; job 2, queued behind it, ran afterwards; job 3 is executing.
C3_Witness ==
    /\ Len(jobLog) = 3
    /\ jobLog[1].outcome = "raise"
    /\ jobLog[2].state = "done"
    /\ jobLog[3].state = "running"

\* C4: every fetch job that runs to completion publishes exactly one terminal
\* message: an error naming the entry when the command fails or cannot be
\* launched, a non-error confirmation when it exits with code 0.
C4_OneTerminalMessage ==
    \A j \in Jobs :
        (jobLog[j].state = "done" /\ jobLog[j].outcome # "raise") =>
            /\ Len(jobLog[j].published) = 1
            /\ jobLog[j].published[1][2] = (jobLog[j].outcome # "exit0")
            /\ jobLog[j].published[1][1].kind = jobLog[j].task.kind
            /\ jobLog[j].published[1][1].value = jobLog[j].task.value
            /\ jobLog[j].published[1][1].detail # "" <=> jobLog[j].outcome # "exit0"

\* C5: every published message is in the buffer or was returned by exactly
\* one drain: none is lost, none is returned twice.
C5_NoLossNoDuplicate ==
    \A i \in 1..Len(pubLog) :
        Count(pubLog[i], async_messages) + Count(pubLog[i], Flatten(drains)) = 1

\* One drain returned messages, a later publish sits in the buffer and another
\* drain is between its copy and its clear.
C5_Witness ==
    /\ \E d \in 1..Len(drains) : drains[d] # <<>>
    /\ async_messages # <<>>
    /\ \E t \in Threads : pc[t] = "consume_clear"

\* C6: a drain returns the whole buffer, in publish order, and leaves it empty
\* (an empty buffer gives an empty sequence); the drains so far followed by the
\* buffer are exactly the messages published, as (text, isError) pairs in order.
C6_DrainReturnsAllInOrder ==
    /\ [](Flatten(drains) \o async_messages = pubLog)
    /\ [][Len(drains') > Len(drains) =>
             /\ drains' = Append(drains, async_messages)
             /\ async_messages' = <<>>]_vars

\* m1 and m2 were published, one drain returned both and the next returned [].
C6_Witness ==
    /\ Len(drains) >= 2
    /\ Len(drains[1]) = 2
    /\ drains[1][1][1].n = 1
    /\ drains[1][2][1].n = 2
    /\ drains[2] = <<>>

\* C7: add_entry with an id that (after trimming) already has a row in the
\* kind's table returns the failure "... already present." and leaves the
\* store unchanged: one row with that id, holding what the first add stored.
C7_DuplicateAddRejected ==
    [][\A t \in Threads :
          (/\ pc[t] = "add_insert"
           /\ pc'[t] = "idle"
           /\ SelectById(tables[frame[t].kind], frame[t].value) # {})
          => /\ tables' = tables
             /\ Cardinality(SelectById(tables'[frame[t].kind], frame[t].value)) = 1
             /\ returned'.call = "add"
             /\ ~returned'.ok
             /\ returned'.msg = "already present."]_vars

\* A second add of track "b " (trimmed to "b") with another title was just
\* rejected, and the row of the first add is still the only one.
C7_Witness ==
    /\ returned.call = "add"
    /\ returned.kind = "track"
    /\ returned.id = <<"b">>
    /\ returned.msg = "already present."
    /\ \E r \in tables["track"] : r.id = returned.id /\ r.name # returned.name
    /\ Cardinality(tables["track"]) = 1

\* C8: concurrent add_entry calls on one kind serialize: a table never holds
\* two rows with one id, and a call returns success exactly when no row with
\* its id existed as it commits (otherwise it returns "already present."), so
\* of the calls adding one id exactly one succeeds.
C8_ConcurrentAddsSerialize ==
    /\ [](\A k \in Kinds : \A r, q \in tables[k] : r.id = q.id => r = q)
    /\ [][\A t \in Threads :
             (pc[t] = "add_insert" /\ pc'[t] = "idle")
             => LET k == frame[t].kind
                    id == frame[t].value
                    present == SelectById(tables[k], id) # {}
                IN /\ returned'.ok = ~present
                   /\ returned'.msg = IF present THEN "already present." ELSE "Added"
                   /\ Cardinality(SelectById(tables'[k], id)) = 1]_vars

\* Two add_entry calls for the same kind and id are in progress at once: one
\* is about to insert, the other waits for _lock, and no row has the id yet.
C8_Witness ==
    \E t, u \in Threads :
        /\ pc[t] = "add_insert"
        /\ pc[u] = "add_lock"
        /\ frame[t].kind = frame[u].kind
        /\ frame[t].value = frame[u].value
        /\ ~frame[t].existing

\* C9: a remove_entry call that returns success has deleted the row it
\* selected in its first locked step and no other row: a row inserted by a
\* concurrent add_entry is never deleted by a call that did not select it.
C9_RemoveDeletesOnlySelectedRow ==
    (returned.call = "remove" /\ returned.ok /\ returned.index \in 0..(returned.len - 1)) =>
        returned.deleted \subseteq {returned.selected}

\* C10: remove_entry with an index outside [0, len), negative ones included,
\* returns "Entry not found." and deletes nothing.
C10_OutOfRangeIndexNotFound ==
    (returned.call = "remove" /\ ~(returned.index \in 0..(returned.len - 1))) =>
        /\ ~returned.ok
        /\ returned.msg = "Entry not found."
        /\ returned.deleted = {}

\* The entries of a set of rows in the order their add_entry calls inserted them.
RECURSIVE InAddedOrder(_)
InAddedOrder(rows) ==
    IF rows = {} THEN <<>>
    ELSE LET first == CHOOSE r \in rows : \A q \in rows : r.uid <= q.uid
         IN <<[id |-> first.id, name |-> first.name]>> \o InAddedOrder(rows \ {first})

RECURSIVE IsSubsequence(_, _)
IsSubsequence(s, t) ==
    IF s = <<>> THEN TRUE
    ELSE IF t = <<>> THEN FALSE
    ELSE IF Head(s) = Head(t) THEN IsSubsequence(Tail(s), Tail(t))
    ELSE IsSubsequence(s, Tail(t))

Leaves(t, p) == pc[t] = p /\ pc'[t] # p

StrictlyInside(path, base) == IsPrefix(base, path) /\ path # base

\* C12: whatever name, title or artist an entry holds, a remove_entry step
\* takes from the disk only strict descendants of MUSIC_DIR.
C12_DeletesOnlyInsideMusicDir ==
    [][\A n \in disk \ disk' : StrictlyInside(n.path, MUSIC_DIR)]_vars

\* C13: with more than one directory matching an album entry's artist and
\* title, the media step of its removal deletes nothing, publishes one message
\* about the several matches and makes remove_entry return failure, the row
\* staying in the store.
C13_AmbiguousAlbumRefused ==
    [][\A t \in Threads :
          (/\ Leaves(t, "remove_media")
           /\ frame[t].kind = "album"
           /\ Cardinality(FindAlbumDirectories(disk, frame[t].artist, frame[t].name)) > 1)
          => LET warning ==
                     <<MediaText("Multiple album folders matched", frame[t].name), TRUE>>
             IN /\ disk' = disk
                /\ tables' = tables
                /\ pubLog' = Append(pubLog, warning)
                /\ async_messages' = Append(async_messages, warning)
                /\ returned'.call = "remove"
                /\ ~returned'.ok
                /\ returned'.msg = "Multiple album folders matched"]_vars

\* Album "E" of artist "Ow" matched Ow/E and "Ow T"/E: the call returned the
\* failure, both folders and the row are still there, the warning is queued.
C13_Witness ==
    /\ returned.call = "remove"
    /\ returned.kind = "album"
    /\ returned.msg = "Multiple album folders matched"
    /\ Dir(AlbumDir) \in disk
    /\ Dir(Append(TributeDir, OceanEyes)) \in disk
    /\ tables["album"] # {}
    /\ async_messages # <<>>

\* C14: a remove_entry call with an in-range index returns success and the
\* selected row is gone from the store, whatever the media cleanup did.
C14_RowRemovedWhateverCleanup ==
    (returned.call = "remove" /\ returned.index \in 0..(returned.len - 1)) =>
        /\ returned.ok
        /\ \A r \in tables[returned.kind] : r.uid # returned.selected

C20_ArtistDirectoryGone ==
    [][\A t \in Threads :
          (/\ Leaves(t, "remove_delete")
           /\ frame[t].kind = "artist"
           /\ frame[t].index \in 0..(frame[t].len - 1))
          => LET path_obj == Join(MUSIC_DIR, frame[t].name)
             IN /\ returned'.ok
                /\ returned'.label = frame[t].name
                /\ \A r \in tables'["artist"] : r.uid # frame[t].selected
                /\ ~PathExists(disk', path_obj)
                /\ \A n \in disk \ disk' : IsPrefix(Resolve(path_obj), n.path)]_vars

\* C20: removing an artist with an in-range index returns success naming the
\* artist and removes the row; when MUSIC_DIR/<name> resolves to a strict
\* descendant of MUSIC_DIR it does not exist afterwards and nothing but it
\* (and its contents) was deleted, and otherwise the disk is left as it was.
C20_ArtistDirectoryGoneWhenInside ==
    [][\A t \in Threads :
          (/\ Leaves(t, "remove_delete")
           /\ frame[t].kind = "artist"
           /\ frame[t].index \in 0..(frame[t].len - 1))
          => LET path_obj == Join(MUSIC_DIR, frame[t].name)
             IN /\ returned'.ok
                /\ returned'.label = frame[t].name
                /\ \A r \in tables'["artist"] : r.uid # frame[t].selected
                /\ IF StrictlyInside(Resolve(path_obj), MUSIC_DIR)
                   THEN /\ ~PathExists(disk', path_obj)
                        /\ \A n \in disk \ disk' : IsPrefix(Resolve(path_obj), n.path)
                   ELSE disk' = disk]_vars

\* Artist "Ow" was removed with index 0: Ow/ is gone with its album, and the
\* sibling "Ow T"/, whose name contains the artist's, is untouched.
C20_Witness ==
    /\ returned.call = "remove"
    /\ returned.kind = "artist"
    /\ returned.ok
    /\ returned.index = 0
    /\ returned.label = OwlCity
    /\ tables["artist"] = {}
    /\ Dir(ArtistDir) \notin disk
    /\ Dir(AlbumDir) \notin disk
    /\ Dir(TributeDir) \in disk
    /\ Dir(Append(TributeDir, OceanEyes)) \in disk

\* C15: a trigger call, for any kind, with an id that sanitize_entry_value
\* rejects because it begins with "#" puts no job on the queue (the caller is
\* not sent on to _queue_orpheus_task) and publishes exactly one message, a
\* non-error one, about that id.
C15_IgnoredEntryPublishesNote ==
    [][\A t \in Threads, kind \in Kinds, value \in JobRawValues :
          (/\ Trigger(t, kind, value)
           /\ sanitize_entry_value(value) = None
           /\ StartsWith(Strip(value), "#"))
          => /\ pc'[t] = "idle"
             /\ orpheus_queue' = orpheus_queue
             /\ Len(pubLog') = Len(pubLog) + 1
             /\ pubLog'[Len(pubLog')][2] = FALSE
             /\ pubLog'[Len(pubLog')][1].value = value
             /\ async_messages' = Append(async_messages, pubLog'[Len(pubLog')])]_vars

\* The positions of a thread inside _ensure_cached_photo, and the temporary
\* file of the thread that holds _photo_lock.
EnsurePcs == {"photo_get", "photo_store", "photo_write", "photo_flush", "photo_replace"}
TempInUse == {WithSuffix(frame[t].key, TmpSuffix) : t \in {u \in Threads : photo_lock = u}}

\* C16: with _ensure_cached_photo calls running concurrently for one key and
\* URL, no read (_cached_photo_url, handle_photo_request) ever sees a file that
\* is partly written or empty; no name has two files; whenever no store is in
\* progress every file holds complete bytes; and each call that gets as far as
\* storing returns with exactly one file for its key, holding the whole
\* download.
C16_OneCompleteFileNoPartialRead ==
    /\ [](photo_seen.call \in {"_cached_photo_url", "handle_photo_request"}
          => photo_seen.data \in {NoFile, PhotoBytes})
    /\ [](\A f, g \in photo_files : f.name = g.name => f = g)
    /\ [](photo_lock = NoThread => \A f \in photo_files : f.data = PhotoBytes)
    /\ [][\A t \in Threads :
             (pc[t] \in {"photo_store", "photo_replace"} /\ pc'[t] = "idle")
             => /\ FileData(photo_files', frame[t].key) = frame[t].data
                /\ frame[t].data = PhotoBytes
                /\ Cardinality({f \in photo_files' : f.name = frame[t].key}) = 1]_vars

\* Two calls for the same key have both downloaded: one holds _photo_lock with
\* half of the bytes in its temporary file, the other waits for the lock, and
\* the key is not cached yet.
C16_Witness ==
    \E t, u \in Threads :
        /\ t # u
        /\ pc[t] = "photo_flush"
        /\ pc[u] = "photo_store"
        /\ frame[t].key = frame[u].key
        /\ frame[t].data = frame[u].data
        /\ photo_lock = t
        /\ FileData(photo_files, WithSuffix(frame[t].key, TmpSuffix)) = PartOf(PhotoBytes)
        /\ ~IsCached(photo_files, frame[t].key)

\* C17: a cached entry (a non-empty file that is not the temporary file of a
\* store in progress) is still there with the same bytes after every step
\* that is not purge_cached_photos.
C17_CachedStaysCached ==
    [][(\E t \in Threads : PurgeCachedPhotos(t))
       \/ \A f \in photo_files :
             (f.data # <<>> /\ f.name \notin TempInUse) => f \in photo_files']_vars

\* C18: an artist id and an album id never give the same cache key: two calls
\* in progress, one for an artist photo and one for an album cover, never work
\* on one cache file.
C18_KeysDifferAcrossKinds ==
    \A t, u \in Threads :
        (/\ pc[t] \in EnsurePcs
         /\ pc[u] \in EnsurePcs
         /\ frame[t].kind = "artist"
         /\ frame[u].kind = "album")
        => frame[t].key # frame[u].key

\* The album directories the media step of thread t is about to examine.
AlbumDirectoriesOf(t) ==
    FindAlbumDirectories(disk, frame[t].artist,
                         IF frame[t].kind = "album" THEN frame[t].name ELSE frame[t].album)

\* C21: _is_within_music_dir accepts exactly the strict descendants of the
\* media root: of the directories a cleaner examines, of the root itself and
\* of a directory beside the root, it accepts a path only if the path resolves
\* to a place below MUSIC_DIR and different from it.
C21_OnlyStrictDescendantsAccepted ==
    \A t \in Threads :
        pc[t] = "remove_media" =>
            \A path \in AlbumDirectoriesOf(t) \cup {MUSIC_DIR, OutsideDir} :
                IsWithinMusicDir(path) <=> StrictlyInside(Resolve(path), Resolve(MUSIC_DIR))

\* C22: for a key that is not cached, _ensure_cached_photo returns the empty
\* string and leaves every file of the cache as it was (no file for the key,
\* no temporary file) when it is given no URL, when the download raises a
\* request error, a timeout or an HTTP error, and when the body is empty; the
\* call is over with that step, so none of these reaches the caller as an
\* exception.
C22_FailedFetchLeavesCacheAlone ==
    [][\A t \in Threads :
          /\ \A kind \in {"artist", "album"} :
                \A id \in PhotoIds(kind) :
                   (/\ PhotoKey(kind, id) # None
                    /\ ~IsCached(photo_files, PhotoKey(kind, id))
                    /\ EnsureCachedPhotoBegin(t, kind, id, None))
                   => /\ pc'[t] = "idle"
                      /\ photo_seen' =
                            PhotoSeen("_ensure_cached_photo", t, PhotoKey(kind, id), NoFile)
                      /\ photo_files' = photo_files
          /\ \A outcome \in RequestExceptions \cup {"empty"} :
                (pc[t] = "photo_get" /\ EnsureCachedPhotoGet(t, outcome))
                => /\ pc'[t] = "idle"
                   /\ photo_seen' =
                         PhotoSeen("_ensure_cached_photo", t, frame[t].key, NoFile)
                   /\ photo_files' = photo_files]_vars

\* A call has just returned the empty string for a key that has no file,
\* while the cache holds the photo of another key.
C22_Witness ==
    /\ photo_seen.call = "_ensure_cached_photo"
    /\ photo_seen.key # None
    /\ photo_seen.data = NoFile
    /\ pc[photo_seen.thread] = "idle"
    /\ FileData(photo_files, photo_seen.key) = NoFile
    /\ FileData(photo_files, WithSuffix(photo_seen.key, TmpSuffix)) = NoFile
    /\ \E f \in photo_files : f.data = PhotoBytes

\* C23: purge_cached_photos unlinks every file of the cache and returns how
\* many files there were (0 for an empty cache): when it has returned the
\* cache holds no file, and a _cached_photo_url call that comes next returns
\* no reference whatever key it is asked for.
C23_PurgeEmptiesCacheAndCounts ==
    /\ [](photo_seen.call = "purge_cached_photos" => photo_files = {})
    /\ [][\A t \in Threads :
             PurgeCachedPhotos(t) =>
                /\ photo_seen'.removed = Cardinality(photo_files)
                /\ photo_files = {} => photo_seen'.removed = 0]_vars
    /\ [][\A t \in Threads, identifier \in PhotoRequests :
             (photo_seen.call = "purge_cached_photos" /\ CachedPhotoUrl(t, identifier))
             => photo_seen'.data = NoFile]_vars

\* A purge has just returned 3.
C23_Witness ==
    /\ photo_seen.call = "purge_cached_photos"
    /\ photo_seen.removed = 3

\* s is identifier without the whitespace at its two ends.
IsTrimmed(identifier, s) ==
    /\ s # <<>>
    /\ s[1] \notin Whitespace
    /\ s[Len(s)] \notin Whitespace
    /\ \E i \in 1..Len(identifier) :
          /\ SubSeq(identifier, i, i + Len(s) - 1) = s
          /\ \A j \in 1..Len(identifier) :
                (j < i \/ j >= i + Len(s)) => identifier[j] \in Whitespace

\* The identifiers that are refused: nothing but whitespace, a first
\* character '.' after trimming, or a '/', a '\' or two dots in a row.
IsRefusedIdentifier(identifier) ==
    \/ \A j \in 1..Len(identifier) : identifier[j] \in Whitespace
    \/ \E j \in 1..Len(identifier) :
          /\ identifier[j] = "."
          /\ \A k \in 1..(j - 1) : identifier[k] \in Whitespace
    \/ \E j \in 1..Len(identifier) : identifier[j] \in {"/", "\\"}
    \/ \E j \in 1..(Len(identifier) - 1) : identifier[j] = "." /\ identifier[j + 1] = "."

\* C24: _normalize_photo_identifier, as _cached_photo_url and
\* handle_photo_request apply it to the identifier of a request, returns None
\* exactly for the refused identifiers and otherwise the identifier without
\* the whitespace at its ends; and normalizing what it returned gives the
\* same again.
C24_NormalizeIdentifier ==
    photo_seen.call \in {"_cached_photo_url", "handle_photo_request"} =>
        /\ photo_seen.key = None <=> IsRefusedIdentifier(photo_seen.identifier)
        /\ photo_seen.key # None =>
              /\ IsTrimmed(photo_seen.identifier, photo_seen.key)
              /\ NormalizePhotoIdentifier(photo_seen.key) = photo_seen.key

\* A lookup was given an identifier with a blank before a name that ends in a
\* dot, and has used the name.
C24_Witness ==
    /\ photo_seen.call = "_cached_photo_url"
    /\ photo_seen.identifier = <<" ", "a", ".">>
    /\ photo_seen.key = <<"a", ".">>

\* What the source's _normalize_name_for_match returns for the names in use
\* (combining marks stripped, case-folded, non-alphanumerics removed).
NormalForm(name) ==
    CASE name \in {<<"O", "w">>, <<"o", "-", "w">>, <<"O", " ", "w">>, <<"o", "w">>,
                   <<"O", "W">>} -> <<"o", "w">>
      [] name \in {<<"e'", "w">>, <<"E", "w">>, <<"E'", "W">>} -> <<"e", "w">>
      [] name \in {<<"e">>, <<"e'">>, <<"e", "'">>} -> <<"e">>
      [] name = <<"w">> -> <<"w">>
      [] name = <<"w", "o">> -> <<"w", "o">>
      [] name = <<"-">> -> <<>>

\* part occurs in whole, character by character
IsSubstring(part, whole) ==
    \E i \in 0..(Len(whole) - Len(part)) : \A k \in 1..Len(part) : whole[i + k] = part[k]

\* The one artist directory of the library.
ArtistDirectoryName == Last(CHOOSE n \in {c \in IterDir(disk, MUSIC_DIR) : TRUE} : TRUE)

\* C30: for names whose normalized forms are not empty, _name_matches(
\* candidate, target) holds exactly when the target's normalized form occurs
\* in the candidate's: the media step of an album removal takes the album
\* directory inside the artist directory exactly when the stored artist
\* name's normal form occurs in the directory name's normal form, whatever
\* the case, the accents and the punctuation of the two names.
C30_NameMatchesOnNormalForms ==
    /\ \A candidate \in ArtistDirNames, target \in ArtistTargets :
          (NormalForm(candidate) # <<>> /\ NormalForm(target) # <<>>)
          => (NameMatches(candidate, target)
                 <=> IsSubstring(NormalForm(target), NormalForm(candidate)))
    /\ [][\A t \in Threads :
             (/\ Leaves(t, "remove_media")
              /\ frame[t].kind = "album"
              /\ NormalForm(ArtistDirectoryName) # <<>>
              /\ NormalForm(frame[t].artist) # <<>>)
             => (Dir(Append(Append(MUSIC_DIR, ArtistDirectoryName), AlbumZ)) \notin disk'
                    <=> IsSubstring(NormalForm(frame[t].artist),
                                    NormalForm(ArtistDirectoryName)))]_vars

\* The album directory of the artist directory named E-acute W has been taken
\* by the removal of an album stored with the artist name e-acute, written
\* as e and a combining accent.
C30_Witness ==
    /\ ArtistDirectoryName = <<"E'", "W">>
    /\ Dir(Append(Append(MUSIC_DIR, ArtistDirectoryName), AlbumZ)) \notin disk
    /\ \E t \in Threads : pc[t] = "remove_delete" /\ frame[t].artist = <<"e", "'">>

\* C26: a request that queues a fetch job never waits for a job: in each of
\* its positions inside _queue_orpheus_task its next step can be taken
\* whatever the worker is doing and however many jobs wait; the step that
\* ends the request leaves its own job queued and every other job and the
\* worker as they were; and a job starts running or finishes only in a step of
\* the worker thread, in which no request thread moves.
C26_RequestDoesNotWaitForJobs ==
    /\ [](\A t \in Threads :
             /\ pc[t] = "ensure_worker" => ENABLED EnsureOrpheusWorker(t)
             /\ pc[t] = "queue_put" => ENABLED QueueOrpheusTask(t))
    /\ [][\A t \in Threads :
             Leaves(t, "queue_put") =>
                /\ pc'[t] = "idle"
                /\ Len(jobLog') = Len(jobLog) + 1
                /\ jobLog'[Len(jobLog')].state = "queued"
                /\ \A j \in Jobs : jobLog'[j] = jobLog[j]
                /\ wstate' = wstate
                /\ wjob' = wjob]_vars
    /\ [][\A j \in Jobs :
             jobLog'[j].state # jobLog[j].state =>
                /\ pc' = pc
                /\ frame' = frame
                /\ \E w \in Workers : wstate'[w] # wstate[w]]_vars

\* Three requests have returned: the first job is running, the other two
\* wait in the queue.
C26_Witness ==
    /\ \A t \in Threads : pc[t] = "idle"
    /\ Len(jobLog) = 3
    /\ jobLog[1].state = "running"
    /\ jobLog[2].state = "queued"
    /\ jobLog[3].state = "queued"

\* C27: starting the worker is idempotent: at most one worker thread is alive
\* at any moment; a thread is started only when _orpheus_worker is unset or
\* names a thread that is no longer alive, and it becomes _orpheus_worker; a
\* call of _ensure_orpheus_worker made while the worker is alive starts
\* nothing.
C27_AtMostOneLiveWorker ==
    /\ [](Cardinality({w \in Workers : IsAlive(w)}) <= 1)
    /\ [][\A w \in Workers :
             (wstate[w] = "unstarted" /\ wstate'[w] # "unstarted") =>
                /\ orpheus_worker = 0 \/ wstate[orpheus_worker] = "dead"
                /\ orpheus_worker' = w
                /\ \A v \in Workers \ {w} : wstate'[v] = wstate[v]]_vars
    /\ [][\A t \in Threads :
             (Leaves(t, "ensure_worker") /\ IsAlive(orpheus_worker)) =>
                /\ wstate' = wstate
                /\ orpheus_worker' = orpheus_worker]_vars

\* A request thread has passed _ensure_orpheus_worker while the worker was
\* executing an earlier job: the second thread object is still unstarted.
C27_Witness ==
    /\ wstate[1] = "running"
    /\ wstate[2] = "unstarted"
    /\ orpheus_worker = 1
    /\ \E t \in Threads : pc[t] = "queue_put"
    /\ Len(jobLog) >= 2

C28_OneSuccessfulRemovePerRow ==
    (returned.call = "remove" /\ returned.ok) => returned.selected \in returned.deleted

\* What read_entries lists for a table holding rows.
ListedEntries(rows) ==
    LET ordered == OrderRows(rows)
    IN [i \in 1..Len(ordered) |-> [id |-> ordered[i].id, name |-> ordered[i].name]]

\* seq without its element at position i
WithoutPosition(seq, i) == SubSeq(seq, 1, i - 1) \o SubSeq(seq, i + 1, Len(seq))

\* C29: with no matching media on disk, adding a new id and then removing the
\* entry at the position where read_entries lists it gives back the list
\* there was before the add.  When an add_entry call has inserted its row,
\* the SELECT at that entry's position finds the row and the DELETE by its
\* rowid leaves the list as it was before the insert; and a remove_entry call
\* whose selected row is still listed at its index when the DELETE runs
\* returns success and takes exactly that position out of the list; in
\* between, the media cleanup of an album or a track finds nothing on the
\* disk, which it leaves alone, and lets the removal go on.
C29_AddThenRemoveRestores ==
    /\ [][\A t \in Threads :
             (pc[t] = "add_insert" /\ returned'.call = "add" /\ returned'.ok) =>
                LET kind == returned'.kind
                    listed == ListedEntries(tables'[kind])
                    position == CHOOSE i \in 1..Len(listed) : listed[i].id = returned'.id
                    row == SelectAtOffset(tables'[kind], position - 1)
                IN /\ \E i \in 1..Len(listed) : listed[i].id = returned'.id
                   /\ row # NoRow
                   /\ row.id = returned'.id
                   /\ ListedEntries(DeleteByRowid(tables'[kind], row.rowid))
                         = ListedEntries(tables[kind])]_vars
    /\ [](\A t \in Threads :
             pc[t] = "remove_media" =>
                /\ CleanMedia(t).can_remove
                /\ CleanMedia(t).disk = disk)
    /\ [][\A t \in Threads :
             (/\ Leaves(t, "remove_delete")
              /\ frame[t].index >= 0
              /\ SelectAtOffset(tables[frame[t].kind], frame[t].index) # NoRow
              /\ SelectAtOffset(tables[frame[t].kind], frame[t].index).uid = frame[t].selected)
             => /\ returned'.call = "remove"
                /\ returned'.ok
                /\ ListedEntries(tables'[frame[t].kind])
                      = WithoutPosition(ListedEntries(tables[frame[t].kind]),
                                        frame[t].index + 1)]_vars

\* Two entries of a kind were added and the second one has just been removed
\* at its position: the list is the first entry alone again.
C29_Witness ==
    /\ returned.call = "remove"
    /\ returned.ok
    /\ returned.index = 1
    /\ returned.deleted = {returned.selected}
    /\ storeLog.rows = 2
    /\ Cardinality(tables[returned.kind]) = 1
    /\ \A r \in tables[returned.kind] : r.uid = 1

\* C31: when the client's search raises a timeout, handle_artist_search sends
\* exactly one response, 502 Bad Gateway with the error text "Qobuz search
\* timed out.", and returns without an exception.
C31_SearchTimeoutIsBadGateway ==
    [][\A t \in Threads :
          (pc[t] = "search_call" /\ QobuzSearchCall(t, "Timeout")) =>
             /\ returned' =
                   Handled(t, <<Response("BAD_GATEWAY", "Qobuz search timed out.")>>, FALSE)
             /\ pc'[t] = "idle"]_vars

\* A search that timed out has just been answered while the other thread is
\* inside its own search.
C31_Witness ==
    /\ returned.call = "handle_artist_search"
    /\ returned.responses = <<Response("BAD_GATEWAY", "Qobuz search timed out.")>>
    /\ \E t \in Threads \ {returned.thread} : pc[t] = "search_call"

\* C32: every job put on the queue is eventually started, given that the
\* thunks ahead of it end and the worker is scheduled: no job stays queued
\* for ever, whether it was put while the worker was idle or while a thunk
\* was executing.
C32_QueuedJobIsStarted ==
    \A j \in 1..MaxJobs :
        (j \in Jobs /\ jobLog[j].state = "queued") ~>
            (j \in Jobs /\ jobLog[j].state # "queued"
                /\ \E i \in 1..Len(started) : started[i] = j)

\* Three jobs were queued and all three have been started, in order; the
\* first ended with an exception and the last is executing.
C32_Witness ==
    /\ Len(jobLog) = MaxJobs
    /\ started = <<1, 2, 3>>
    /\ orpheus_queue = <<>>
    /\ jobLog[1].outcome = "raise"
    /\ jobLog[2].outcome = "exit1"
    /\ jobLog[3].state = "running"

\* The entry a fetch job was queued for is no longer stored.
EntryGone(task) == \A r \in tables[task.kind] : r.id # task.value

\* C33: removing an entry neither cancels nor dequeues its fetch job: no step
\* of remove_entry (media cleanup, row deletion) changes the queue, the
\* running thunk or the record of the jobs, and a job whose entry is gone
\* before it started or while it runs is still executed to its end.
C33_RemovalKeepsJob ==
    /\ [][\A t \in Threads, sink \in SinkBehaviours :
             (RemoveEntryMedia(t, CleanMedia(t), sink) \/ RemoveEntryDelete(t, sink)) =>
                UNCHANGED <<orpheus_queue, wjob, wstate, jobLog, started>>]_vars
    /\ \A j \in 1..MaxJobs :
          (j \in Jobs /\ jobLog[j].state # "done" /\ EntryGone(jobLog[j].task)) ~>
             (j \in Jobs /\ jobLog[j].state = "done")

\* The entry's row has just been removed and its album directory deleted
\* while one fetch job for it is executing and another waits in the queue.
C33_Witness ==
    /\ returned # NoCall /\ returned.call = "remove" /\ returned.ok
    /\ Len(jobLog) >= 2
    /\ jobLog[1].state = "running" /\ jobLog[2].state = "queued"
    /\ jobLog[1].task.kind = returned.kind /\ jobLog[2].task.kind = returned.kind
    /\ EntryGone(jobLog[1].task)
    /\ Dir(AlbumDir) \notin disk
    /\ Len(orpheus_queue) = 1

\* The directories directly under the media root whose name matches the
\* artist name.
MatchingArtistDirectories(artist_name) ==
    {child \in IterDir(disk, MUSIC_DIR) :
        IsDir(disk, child) /\ NameMatches(Last(child), artist_name)}

\* C34: when some directory directly under the media root matches the artist
\* name, every album directory the lookup returns lies inside one of the
\* matching artist directories.
C34_AlbumsOnlyInsideMatchingArtists ==
    \A t \in Threads :
        (pc[t] = "remove_media" /\ MatchingArtistDirectories(frame[t].artist) # {}) =>
            \A album \in AlbumDirectoriesOf(t) :
                \E artist \in MatchingArtistDirectories(frame[t].artist) :
                    IsPrefix(artist, album) /\ album # artist

\* C35: the cleanup of an album removal that finds no matching directory
\* reports success and leaves the disk as it is; one that finds exactly one
\* matching directory, strictly inside the media root, reports success and
\* takes from the disk that directory with what it holds and nothing else.
C35_AlbumCleanupFrame ==
    [][\A t \in Threads :
          (Leaves(t, "remove_media") /\ frame[t].kind = "album") =>
             /\ AlbumDirectoriesOf(t) = {} =>
                   (disk' = disk /\ pc'[t] = "remove_delete")
             /\ \A album \in AlbumDirectoriesOf(t) :
                   (AlbumDirectoriesOf(t) = {album} /\ StrictlyInside(album, MUSIC_DIR)) =>
                      /\ disk' = {n \in disk : ~IsPrefix(album, n.path)}
                      /\ Dir(album) \in disk
                      /\ pc'[t] = "remove_delete"]_vars

\* An album removal has returned success after deleting the album directory
\* of the artist; the artist directory and the nested directories beside it
\* are still on disk.
C35_Witness ==
    /\ returned # NoCall /\ returned.call = "remove" /\ returned.ok
    /\ returned.kind = "album"
    /\ Dir(AlbumDir) \notin disk
    /\ File(Append(AlbumDir, Fireflies)) \notin disk
    /\ Dir(ArtistDir) \in disk
    /\ Dir(Append(NestedDir, <<"T">>)) \in disk

\* The text published when the album folder could not be deleted.
FolderWarning(track_title) ==
    <<MediaText("was removed but the album folder could not be deleted", track_title), TRUE>>

\* C36: when the track's file is deleted and the removal of the album
\* directory, now without audio files, fails, the cleanup still reports
\* success: the file is gone, the directory is still there, the warning that
\* the track was removed but the album folder could not be deleted is appended
\* to the mailbox, and the removal goes on to delete the row and return
\* success.
C36_FolderFailureIsWarning ==
    [][\A t \in Threads, sink \in SinkBehaviours :
          /\ \A outcome \in RmTreeOutcomes \ {"removed"} :
                LET albums == FindAlbumDirectories(disk, frame[t].artist, frame[t].album)
                    album == CHOOSE a \in albums : TRUE
                    tracks == FindTrackFiles(disk, album, frame[t].name)
                    clean == RemoveTrackMedia(disk, frame[t].artist, frame[t].album,
                                              frame[t].name)
                IN (/\ pc[t] = "remove_media"
                    /\ frame[t].kind = "track"
                    /\ clean.can_remove
                    /\ \E n \in disk \ clean.disk : n.is_dir
                    /\ RemoveEntryMedia(t, CleanMediaWith(t, outcome), sink))
                   => /\ pc'[t] = "remove_delete"
                      /\ async_messages' = Append(async_messages, FolderWarning(frame[t].name))
                      /\ \A f \in tracks : File(f) \notin disk'
                      /\ Dir(album) \in disk'
          /\ (pc[t] = "remove_delete" /\ frame[t].kind = "track"
              /\ RemoveEntryDelete(t, sink))
             => /\ returned'.call = "remove" /\ returned'.ok
                /\ \A r \in tables'["track"] : r.rowid # frame[t].rowid]_vars

\* A track removal has returned success and its row is gone; the track's file
\* is deleted, the album directory is still on disk, and the warning about
\* the album folder is in the mailbox.
C36_Witness ==
    /\ returned # NoCall /\ returned.call = "remove" /\ returned.ok
    /\ returned.kind = "track"
    /\ tables["track"] = {}
    /\ File(Append(AlbumDir, Fireflies)) \notin disk
    /\ Dir(AlbumDir) \in disk
    /\ async_messages = <<FolderWarning(<<"s">>)>>

\* A file name that names a direct child of the directory it is joined to.
IsDirectChild(name) ==
    /\ name # <<>>
    /\ ~Contains(name, <<"/">>)
    /\ name \notin {<<".">>, DotDot}

\* C37: every file the cache holds (each was created or replaced by a cache
\* operation) and every file a lookup or /photos/ read is a direct child of
\* the cache directory; and a call given an identifier that is empty after
\* trimming, starts with '.', or contains '/', '\' or '..' ends with no key,
\* in a step that changes no file.
C37_CacheFilesAreDirectChildren ==
    /\ [](/\ \A f \in photo_files : IsDirectChild(f.name)
          /\ \A t \in Threads :
                pc[t] \in EnsurePcs =>
                   /\ IsDirectChild(frame[t].key)
                   /\ IsDirectChild(WithSuffix(frame[t].key, TmpSuffix))
          /\ "key" \in DOMAIN photo_seen =>
                /\ photo_seen.key # None => IsDirectChild(photo_seen.key)
                /\ ("identifier" \in DOMAIN photo_seen
                       /\ IsRefusedIdentifier(photo_seen.identifier))
                   => (photo_seen.key = None /\ photo_seen.data = NoFile))
    /\ [][("key" \in DOMAIN photo_seen' /\ photo_seen'.key = None)
             => (photo_files' = photo_files /\ pc' = pc)]_vars

\* The photo stored for the identifier "a.b" is in the cache under that name,
\* and a request for "../a" has just been refused.
C37_Witness ==
    /\ \E f \in photo_files : f.name = <<"a", ".", "b">> /\ f.data = PhotoBytes
    /\ photo_seen # NoCall
    /\ photo_seen.call = "handle_photo_request"
    /\ photo_seen.identifier = <<".", ".", "/", "a">>
    /\ photo_seen.key = None

\* C38: a publish appends its message to the end of the buffer and is back
\* at its caller with that step: it waits for no I/O, the delivery to the
\* notification sink included.
C38_PublishReturnsWithoutWaiting ==
    [][\A t \in Threads, what \in PublishTexts, is_error \in BOOLEAN, webhook \in BOOLEAN :
          EnqueueAppend(t, what, is_error, webhook) =>
             /\ Len(async_messages') = Len(async_messages) + 1
             /\ SubSeq(async_messages', 1, Len(async_messages)) = async_messages
             /\ async_messages'[Len(async_messages')][1].what = what
             /\ pc'[t] = "idle"]_vars

\* C39: a title whose normalized form is empty matches no directory and no
\* file, not even one named exactly like it, and the removal of an album or
\* track entry with such a title takes nothing from the disk.
C39_EmptyFormMatchesNothing ==
    /\ [](\A title \in EmptyFormTitles, n \in disk :
             n.path # <<>> =>
                /\ ~NameMatches(Last(n.path), title)
                /\ FindAlbumDirectories(disk, <<>>, title) = {}
                /\ FindTrackFiles(disk, n.path, title) = {})
    /\ [][\A t \in Threads :
             (/\ pc[t] \in {"remove_media", "remove_delete"}
              /\ pc'[t] # pc[t]
              /\ frame[t].kind \in {"album", "track"}
              /\ frame[t].name \in EmptyFormTitles)
             => disk' = disk]_vars

\* The album entry titled "-" has been removed; the directory named "-" in
\* the artist directory and the audio file "-.wv" are still on disk.
C39_Witness ==
    /\ returned # NoCall /\ returned.call = "remove" /\ returned.ok
    /\ returned.kind = "album"
    /\ returned.label = Dash
    /\ tables["album"] = {}
    /\ Dir(Append(ArtistDir, Dash)) \in disk
    /\ File(Append(AlbumDir, Dash \o <<".", "w", "v">>)) \in disk

\* The request threads between a successful add_entry of (kind, id) and the
\* put of its job.
Triggering(kind, id) ==
    {t \in Threads :
        \/ pc[t] = "select_trigger" /\ frame[t].kind = kind /\ frame[t].value = id
        \/ pc[t] \in {"ensure_worker", "queue_put"} /\ frame[t].task.kind = kind
              /\ frame[t].task.value = id}

JobsFor(kind, id) == {j \in Jobs : jobLog[j].task.kind = kind /\ jobLog[j].task.value = id}

\* C40: the select handlers enqueue a fetch job only after add_entry
\* succeeded.  For every kind and id, the jobs queued for it plus the handlers
\* about to queue one are as many as the rows add_entry stored for it (one
\* for a fetchable id that was added, none for an id that starts with '#',
\* none for an id no add stored); so a rejected add (duplicate, missing id)
\* queues nothing and a successful add of a fetchable id queues exactly one
\* job, of its kind and id.
C40_JobOnlyAfterSuccessfulAdd ==
    /\ \A j \in Jobs : jobLog[j].task.value \in {Strip(id) : id \in SelectIds}
    /\ \A kind \in Kinds, id \in {Strip(raw) : raw \in SelectIds} :
          IF sanitize_entry_value(id) = None
          THEN /\ JobsFor(kind, id) = {}
               /\ \A t \in Triggering(kind, id) : pc[t] = "select_trigger"
          ELSE Cardinality(JobsFor(kind, id)) + Cardinality(Triggering(kind, id)) =
                  Cardinality(SelectById(tables[kind], id))

\* Album "a" was added once and selected again (the second add was rejected
\* as already present): exactly one job for it has been queued, and it has
\* run; every handler has returned.
C40_Witness ==
    /\ returned # NoCall /\ returned.call = "add" /\ ~returned.ok
    /\ returned.kind = "album" /\ returned.id = <<"a">>
    /\ Cardinality(JobsFor("album", <<"a">>)) = 1
    /\ Len(jobLog) = 1
    /\ jobLog[1].state = "done"
    /\ \A t \in Threads : pc[t] = "idle"

====
